---- MODULE Spec2Model ----
(***************************************************************************)
(* A model of gflags.FlagValues (src/gflags/flagvalues.py): the flag       *)
(* registry, the flagfile expander and the argument scanner.               *)
(*                                                                         *)
(* Python strings are sequences of one-character strings, so that          *)
(* startswith, lstrip, split and strip are computed as the code computes   *)
(* them.  Flag objects are identities (FlagObjs) with immutable attributes *)
(* (FlagDef) and a mutable part (fobj).                                    *)
(***************************************************************************)
EXTENDS Integers, Sequences, FiniteSets, TLC

VARIABLES
  fl,                  \* __flags: name -> Flag object (a function, DOMAIN = the keys)
  fobj,                \* the mutable part of every Flag object
  hidden,              \* __hiddenflags
  flags_by_module,     \* __flags_by_module: module name -> list of Flag objects
  flags_by_module_id,  \* __flags_by_module_id: module id -> list of Flag objects
  key_flags_by_module, \* __key_flags_by_module
  parsed,              \* __flags_parsed
  gnu,                 \* __use_gnu_getopt
  files,               \* the file system read by the flagfile expander
  last                 \* the last operation: its inputs, its outcome, the state before it

vars == <<fl, fobj, hidden, flags_by_module, flags_by_module_id,
          key_flags_by_module, parsed, gnu, files, last>>

\* ------------------------------------------------------------------ bounds
\* The longest argument vector a parse is given, the program name aside.
MaxArgs == 3

\* The number of registry operations in one behaviour of Spec.
MaxOps == 3

\* The number of operations in one behaviour of SpecReimport.
MaxModuleOps == 4

\* ------------------------------------------------------------ Python strings
Whitespace == {" ", "\n", "\t"}

StartsWith(s, p) == Len(s) >= Len(p) /\ SubSeq(s, 1, Len(p)) = p

Contains(s, c) == \E k \in 1..Len(s) : s[k] = c

\* The index of the first c in s, 0 when there is none.
IndexOf(s, c) ==
  IF Contains(s, c) THEN CHOOSE k \in 1..Len(s) : s[k] = c /\ \A j \in 1..(k-1) : s[j] /= c
  ELSE 0

\* str.lstrip(c)
RECURSIVE LStrip(_, _)
LStrip(s, c) == IF s /= <<>> /\ Head(s) = c THEN LStrip(Tail(s), c) ELSE s

RECURSIVE LStripWs(_)
LStripWs(s) == IF s /= <<>> /\ Head(s) \in Whitespace THEN LStripWs(Tail(s)) ELSE s

RECURSIVE RStripWs(_)
RStripWs(s) ==
  IF s /= <<>> /\ s[Len(s)] \in Whitespace THEN RStripWs(SubSeq(s, 1, Len(s) - 1)) ELSE s

\* Strip that leaves the whitespace at the end (a mutant).
StripLeftOnly(s) == LStripWs(s)

\* str.strip()
Strip(s) == RStripWs(LStripWs(s))

\* str.isspace(): non-empty and all whitespace
IsSpace(s) == s /= <<>> /\ \A k \in 1..Len(s) : s[k] \in Whitespace

\* str.split(',') as a sequence of pieces
RECURSIVE SplitComma(_)
SplitComma(s) ==
  LET k == IndexOf(s, ",") IN
  IF k = 0 THEN <<s>>
  ELSE <<SubSeq(s, 1, k - 1)>> \o SplitComma(SubSeq(s, k + 1, Len(s)))

Range(q) == {q[k] : k \in 1..Len(q)}

\* ------------------------------------------------------------ Python values
\* A value is None, a bool, an int or a str; one record shape for all.
VNone    == [t |-> "None", s |-> <<>>, n |-> 0, b |-> FALSE]
VBool(x) == [t |-> "bool", s |-> <<>>, n |-> 0, b |-> x]
VInt(x)  == [t |-> "int",  s |-> <<>>, n |-> x, b |-> FALSE]
VStr(x)  == [t |-> "str",  s |-> x,    n |-> 0, b |-> FALSE]

\* None, where a module name or id is expected.
None == "None"

Digits == {"0", "1", "2", "3", "4", "5", "6", "7", "8", "9"}

DigitVal(c) ==
  CASE c = "0" -> 0 [] c = "1" -> 1 [] c = "2" -> 2 [] c = "3" -> 3 [] c = "4" -> 4
    [] c = "5" -> 5 [] c = "6" -> 6 [] c = "7" -> 7 [] c = "8" -> 8 [] c = "9" -> 9

RECURSIVE DecimalValue(_)
DecimalValue(s) ==
  IF s = <<>> THEN 0
  ELSE DecimalValue(SubSeq(s, 1, Len(s) - 1)) * 10 + DigitVal(s[Len(s)])

\* ------------------------------------------------------------- the names
NameA        == <<"a">>
NameB        == <<"b">>
NameC        == <<"c">>
NameX        == <<"x">>
NameZZ       == <<"z", "z">>
NameAB       == <<"a", "b">>
NameNo       == <<"n", "o">>
NameNoA      == <<"n", "o", "a">>
NameNoB      == <<"n", "o", "b">>
NameUndefok  == <<"u", "n", "d", "e", "f", "o", "k">>
NameFlagfile == <<"f", "l", "a", "g", "f", "i", "l", "e">>
NoName       == <<"N", "o", "n", "e">>   \* stands for short_name = None (has_short is FALSE)

\* ------------------------------------------------------ the Flag objects
FlagObjs == {"Fa", "Fa2", "Fa3", "Fb", "Fc", "Fnoa", "Fnob", "Fundefok", "Fflagfile",
             "Fab", "Fno"}

FlagAttrs(nm, hs, sn, kind, ov, dflt) ==
  [name |-> nm, has_short |-> hs, short_name |-> sn, kind |-> kind,
   boolean |-> (kind = "bool"), allow_override |-> ov, default |-> dflt]

\* The attributes a Flag object is built with (name, short_name, boolean,
\* allow_override, default) and the kind of its parser.
FlagDef ==
  [o \in FlagObjs |->
     CASE o = "Fa"        -> FlagAttrs(NameA, TRUE, NameX, "int", FALSE, VInt(0))
       [] o = "Fa2"       -> FlagAttrs(NameA, FALSE, NoName, "int", TRUE, VInt(1))
       [] o = "Fa3"       -> FlagAttrs(NameA, FALSE, NoName, "int", FALSE, VInt(2))
       [] o = "Fb"        -> FlagAttrs(NameB, FALSE, NoName, "bool", FALSE, VNone)
       [] o = "Fc"        -> FlagAttrs(NameC, TRUE, NameX, "str", FALSE, VNone)
       [] o = "Fnoa"      -> FlagAttrs(NameNoA, FALSE, NoName, "str", FALSE, VNone)
       [] o = "Fnob"      -> FlagAttrs(NameNoB, FALSE, NoName, "str", FALSE, VNone)
       [] o = "Fundefok"  -> FlagAttrs(NameUndefok, FALSE, NoName, "str", FALSE, VNone)
       [] o = "Fflagfile" -> FlagAttrs(NameFlagfile, FALSE, NoName, "str", FALSE, VNone)
       [] o = "Fab"       -> FlagAttrs(NameAB, FALSE, NoName, "int", FALSE, VInt(0))
       [] o = "Fno"       -> FlagAttrs(NameNo, FALSE, NoName, "bool", FALSE, VNone)]

\* A Flag object as its constructor leaves it.
NewFlagState(o) ==
  [value |-> FlagDef[o].default, default |-> FlagDef[o].default,
   using_default_value |-> TRUE, present |-> 0, validators |-> {}]

\* ------------------------------------------------- the Flag collaborator
\* ArgumentParser.Parse of the flag's parser: the converted value, or a
\* ValueError (ok = FALSE).
ParserParse(kind, raw) ==
  CASE kind = "int" ->
         IF raw.t = "str" /\ raw.s /= <<>> /\ \A k \in 1..Len(raw.s) : raw.s[k] \in Digits
         THEN [ok |-> TRUE, v |-> VInt(DecimalValue(raw.s))]
         ELSE [ok |-> FALSE, v |-> VNone]
    [] kind = "bool" ->
         IF raw.t = "bool" THEN [ok |-> TRUE, v |-> raw]
         ELSE IF raw.t = "str" /\ raw.s \in {<<"t", "r", "u", "e">>, <<"t">>, <<"1">>}
         THEN [ok |-> TRUE, v |-> VBool(TRUE)]
         ELSE IF raw.t = "str" /\ raw.s \in {<<"f", "a", "l", "s", "e">>, <<"f">>, <<"0">>}
         THEN [ok |-> TRUE, v |-> VBool(FALSE)]
         ELSE [ok |-> FALSE, v |-> VNone]
    [] OTHER ->
         IF raw.t = "str" THEN [ok |-> TRUE, v |-> raw] ELSE [ok |-> FALSE, v |-> VNone]

\* Flag.Parse(argument): value := parser.Parse(argument), present += 1; a
\* ValueError of the parser is recast as IllegalFlagValue and changes nothing.
FlagParse(fo, o, raw) ==
  LET r == ParserParse(FlagDef[o].kind, raw) IN
  IF r.ok
  THEN [ok |-> TRUE, fobj |-> [fo EXCEPT ![o].value = r.v, ![o].present = @ + 1]]
  ELSE [ok |-> FALSE, fobj |-> fo]

\* Flag.Unparse(): back to the default, not present.
FlagUnparse(fo, o) ==
  [fo EXCEPT ![o].value = fo[o].default, ![o].using_default_value = TRUE,
             ![o].present = 0]

\* Flag.SetDefault(value): the default and, with it, the value.
FlagSetDefault(fo, o, value) == FlagUnparse([fo EXCEPT ![o].default = value], o)

\* The validators: each names one flag and has a checker over its value.
Validators == {"Va", "Vb"}

ValidatorDef ==
  [v \in Validators |->
     IF v = "Va" THEN [flag_name |-> NameA, insertion_index |-> 1]
     ELSE [flag_name |-> NameB, insertion_index |-> 2]]

\* The checker functions: Va wants a /= 5, Vb wants b not False.
Checker(v, value) == IF v = "Va" THEN value /= VInt(5) ELSE value /= VBool(FALSE)

\* Validator.Verify(flag_values): reads flag_values[flag_name].value
Verify(v, f, fo) ==
  IF ValidatorDef[v].flag_name \notin DOMAIN f THEN "KeyError"
  ELSE IF Checker(v, fo[f[ValidatorDef[v].flag_name]].value) THEN "ok"
  ELSE "IllegalFlagValue"

\* AssertValidators that asserts nothing (a mutant).
AssertValidatorsSkipped(vs, f, fo) == "ok"

\* AssertValidators that asserts the validators of every flag (a mutant).
AssertValidatorsOfAllFlags(vs, f, fo) ==
  IF \E o \in FlagObjs : \E v \in fo[o].validators : Verify(v, f, fo) /= "ok"
  THEN "IllegalFlagValue"
  ELSE "ok"

\* _AssertValidators: in insertion order, the first failure is raised.
AssertValidators(vs, f, fo) ==
  LET bad == {v \in vs : Verify(v, f, fo) /= "ok"} IN
  IF bad = {} THEN "ok"
  ELSE LET first == CHOOSE v \in bad : \A w \in bad :
                      ValidatorDef[v].insertion_index <= ValidatorDef[w].insertion_index
       IN Verify(first, f, fo)

\* AssertAllValidators that asserts nothing (a mutant).
AssertAllValidatorsSkipped(f, fo) == "ok"

\* _AssertAllValidators: the validators of every registered Flag object.
AssertAllValidators(f, fo) ==
  AssertValidators(UNION {fo[f[n]].validators : n \in DOMAIN f}, f, fo)

\* ----------------------------------------------------- flagfile expander
Dash == <<"-">>
DashDash == <<"-", "-">>
FlagfileEq2 == DashDash \o NameFlagfile \o <<"=">>
FlagfileEq1 == Dash \o NameFlagfile \o <<"=">>
Flagfile2 == DashDash \o NameFlagfile
Flagfile1 == Dash \o NameFlagfile

\* __IsFlagFileDirective
IsFlagFileDirective(flag_string) ==
  \/ StartsWith(flag_string, FlagfileEq2)
  \/ flag_string = Flagfile2
  \/ StartsWith(flag_string, FlagfileEq1)
  \/ flag_string = Flagfile1

\* ExtractFilename; os.path.expanduser leaves a name without a leading ~ alone.
ExtractFilename(flagfile_str) ==
  IF StartsWith(flagfile_str, FlagfileEq2)
  THEN [err |-> "ok",
        name |-> Strip(SubSeq(flagfile_str, Len(FlagfileEq2) + 1, Len(flagfile_str)))]
  ELSE IF StartsWith(flagfile_str, FlagfileEq1)
  THEN [err |-> "ok",
        name |-> Strip(SubSeq(flagfile_str, Len(FlagfileEq1) + 1, Len(flagfile_str)))]
  ELSE [err |-> "FlagsError", name |-> <<>>]

RECURSIVE GetFlagFileLines(_, _, _)
RECURSIVE FlagFileLinesLoop(_, _, _, _, _)

\* The for loop of __GetFlagFileLines over line_list, from line k on.
FlagFileLinesLoop(fs, line_list, k, stack, flag_line_list) ==
  IF k > Len(line_list) THEN [err |-> "ok", lines |-> flag_line_list]
  ELSE
    LET line == line_list[k] IN
    IF IsSpace(line) THEN FlagFileLinesLoop(fs, line_list, k + 1, stack, flag_line_list)
    ELSE IF StartsWith(line, <<"#">>) \/ StartsWith(line, <<"/", "/">>)
    THEN FlagFileLinesLoop(fs, line_list, k + 1, stack, flag_line_list)
    ELSE IF IsFlagFileDirective(line)
    THEN LET sub == ExtractFilename(line) IN
         IF sub.err /= "ok" THEN [err |-> sub.err, lines |-> <<>>]
         ELSE LET inc == GetFlagFileLines(fs, sub.name, stack) IN
              IF inc.err /= "ok" THEN inc
              ELSE FlagFileLinesLoop(fs, line_list, k + 1, stack,
                                     flag_line_list \o inc.lines)
    ELSE FlagFileLinesLoop(fs, line_list, k + 1, stack,
                           Append(flag_line_list, Strip(line)))

\* GetFlagFileLines that fails on a file already being expanded (a mutant).
GetFlagFileLinesNoCycles(fs, filename, parsed_file_stack) ==
  IF filename \in Range(parsed_file_stack) THEN [err |-> "RuntimeError", lines |-> <<>>]
  ELSE IF filename \notin DOMAIN fs THEN [err |-> "CantOpenFlagFileError", lines |-> <<>>]
  ELSE FlagFileLinesLoop(fs, fs[filename], 1, Append(parsed_file_stack, filename), <<>>)

\* __GetFlagFileLines(filename, parsed_file_stack)
GetFlagFileLines(fs, filename, parsed_file_stack) ==
  IF filename \in Range(parsed_file_stack) THEN [err |-> "ok", lines |-> <<>>]
  ELSE IF filename \notin DOMAIN fs THEN [err |-> "CantOpenFlagFileError", lines |-> <<>>]
  ELSE FlagFileLinesLoop(fs, fs[filename], 1, Append(parsed_file_stack, filename), <<>>)

\* SkipsValue that never skips (a mutant).
SkipsValueNever(f, current_arg, rest) == FALSE

\* "If this is an occurence of a legitimate --x y, skip the value so that it
\* won't be mistaken for a standalone arg."
SkipsValue(f, current_arg, rest) ==
  /\ ~Contains(current_arg, "=")
  /\ rest /= <<>>
  /\ ~StartsWith(Head(rest), Dash)
  /\ LStrip(current_arg, "-") \in DOMAIN f
  /\ ~FlagDef[f[LStrip(current_arg, "-")]].boolean

\* StopsAtNonFlag that never stops (a mutant).
StopsAtNonFlagNever(use_gnu, force_gnu) == FALSE

\* "Stop parsing after a non-flag, like getopt."
StopsAtNonFlag(use_gnu, force_gnu) == ~force_gnu /\ ~use_gnu

\* StopsExpansion that never stops (a mutant).
StopsExpansionNever(current_arg) == FALSE

\* "Stop parsing after '--', like getopt and gnu_getopt."
StopsExpansion(current_arg) == current_arg = DashDash

\* The while loop of ReadFlagsFromFiles.
RECURSIVE ReadFlagsLoop(_, _, _, _, _, _)
ReadFlagsLoop(fs, f, use_gnu, force_gnu, rest_of_args, new_argv) ==
  IF rest_of_args = <<>> THEN [err |-> "ok", args |-> new_argv]
  ELSE
    LET current_arg == Head(rest_of_args)
        rest == Tail(rest_of_args)
    IN
    IF IsFlagFileDirective(current_arg)
    THEN
      IF current_arg = Flagfile2 \/ current_arg = Flagfile1
      THEN IF rest = <<>> THEN [err |-> "IllegalFlagValue", args |-> <<>>]
           ELSE LET got == GetFlagFileLines(fs, Head(rest), <<>>) IN
                IF got.err /= "ok" THEN [err |-> got.err, args |-> <<>>]
                ELSE ReadFlagsLoop(fs, f, use_gnu, force_gnu, Tail(rest),
                                   new_argv \o got.lines)
      ELSE LET fn == ExtractFilename(current_arg) IN
           IF fn.err /= "ok" THEN [err |-> fn.err, args |-> <<>>]
           ELSE LET got == GetFlagFileLines(fs, fn.name, <<>>) IN
                IF got.err /= "ok" THEN [err |-> got.err, args |-> <<>>]
                ELSE ReadFlagsLoop(fs, f, use_gnu, force_gnu, rest, new_argv \o got.lines)
    ELSE
      LET appended == Append(new_argv, current_arg) IN
      IF StopsExpansion(current_arg) THEN [err |-> "ok", args |-> appended \o rest]
      ELSE IF ~StartsWith(current_arg, Dash)
      THEN IF StopsAtNonFlag(use_gnu, force_gnu) THEN [err |-> "ok", args |-> appended \o rest]
           ELSE ReadFlagsLoop(fs, f, use_gnu, force_gnu, rest, appended)
      ELSE
        IF SkipsValue(f, current_arg, rest)
        THEN ReadFlagsLoop(fs, f, use_gnu, force_gnu, Tail(rest),
                           Append(appended, Head(rest)))
        ELSE ReadFlagsLoop(fs, f, use_gnu, force_gnu, rest, appended)

\* ReadFlagsFromFiles(argv, force_gnu)
ReadFlagsFromFiles(fs, f, use_gnu, argv, force_gnu) ==
  ReadFlagsLoop(fs, f, use_gnu, force_gnu, argv, <<>>)

\* ------------------------------------------------------- argument scanner
No == <<"n", "o">>

\* The state of the loop of _ParseArgs before its first iteration.  i is the
\* (1-based) index of the next token; calls lists the Flag.Parse invocations
\* (object, raw value, whether it returned, index of the flag's token) and
\* cls says what the loop did with each token.
ParseStart(args, fo) ==
  [i |-> 1, fobj |-> fo, unknown_flags |-> <<>>, unparsed_args |-> <<>>,
   undefok |-> {}, err |-> "ok", brk |-> FALSE, calls |-> <<>>,
   cls |-> [k \in 1..Len(args) |-> "rest"]]

\* undefok.update(v.strip() ...); undefok.update('no' + v.strip() ...)
UndefokNames(value) ==
  LET pieces == Range(SplitComma(value)) IN
  {Strip(v) : v \in pieces} \cup {No \o Strip(v) : v \in pieces}

\* ParseFlagValue without the assignment of line 657 (a mutant).
ParseFlagValueKeepsDefault(st, o, value, at) ==
  LET r == FlagParse(st.fobj, o, value) IN
  IF r.ok
  THEN [st EXCEPT !.fobj = r.fobj,
                  !.calls = Append(@, [o |-> o, raw |-> value, ok |-> TRUE, at |-> at])]
  ELSE [st EXCEPT !.err = "IllegalFlagValue",
                  !.calls = Append(@, [o |-> o, raw |-> value, ok |-> FALSE, at |-> at])]

\* ParseFlagValue that keeps the value of a flag the scan has set already
\* (a mutant).
ParseFlagValueFirstWins(st, o, value, at) ==
  LET r == FlagParse(st.fobj, o, value) IN
  IF r.ok
  THEN [st EXCEPT !.fobj = [r.fobj EXCEPT ![o].using_default_value = FALSE,
                                          ![o].value =
                                            IF \E c \in 1..Len(st.calls) : st.calls[c].o = o
                                            THEN st.fobj[o].value ELSE @],
                  !.calls = Append(@, [o |-> o, raw |-> value, ok |-> TRUE, at |-> at])]
  ELSE [st EXCEPT !.err = "IllegalFlagValue",
                  !.calls = Append(@, [o |-> o, raw |-> value, ok |-> FALSE, at |-> at])]

\* flag.Parse(value); flag.using_default_value = False
ParseFlagValue(st, o, value, at) ==
  LET r == FlagParse(st.fobj, o, value) IN
  IF r.ok
  THEN [st EXCEPT !.fobj = [r.fobj EXCEPT ![o].using_default_value = FALSE],
                  !.calls = Append(@, [o |-> o, raw |-> value, ok |-> TRUE, at |-> at])]
  ELSE [st EXCEPT !.err = "IllegalFlagValue",
                  !.calls = Append(@, [o |-> o, raw |-> value, ok |-> FALSE, at |-> at])]

\* NegatedFlag without the test of the boolean trait (a mutant).
NegatedFlagAnyKind(flag_dict, name) ==
  IF StartsWith(name, No) /\ SubSeq(name, 3, Len(name)) \in DOMAIN flag_dict
  THEN flag_dict[SubSeq(name, 3, Len(name))]
  ELSE "none"

\* Lines 645-649: the flag that --no<flag> negates, "none" if name is not
\* no + the name of a registered boolean flag.
NegatedFlag(flag_dict, name) ==
  IF /\ StartsWith(name, No)
     /\ SubSeq(name, 3, Len(name)) \in DOMAIN flag_dict
     /\ FlagDef[flag_dict[SubSeq(name, 3, Len(name))]].boolean
  THEN flag_dict[SubSeq(name, 3, Len(name))]
  ELSE "none"

\* BreakAtPositional that stops in GNU mode too (a mutant).
BreakAtPositionalAlways(use_gnu) == TRUE

\* After a non-argument: "default is break, GNU is skip".
BreakAtPositional(use_gnu) == ~use_gnu

\* The body of the while loop of _ParseArgs for the token at st.i, which
\* splits into name and value.
ParseArg(args, flag_dict, use_gnu, st, name, value) ==
  LET at == st.i
      arg == args[at]
      s1 == [st EXCEPT !.i = at + 1]
      positional == [s1 EXCEPT !.unparsed_args = Append(@, arg), !.cls[at] = "positional",
                               !.brk = BreakAtPositional(use_gnu)]
      has_next == at + 1 <= Len(args)
      missing == [s1 EXCEPT !.err = "FlagsError", !.cls[at] = "missing"]
  IN
  IF ~StartsWith(arg, Dash) THEN positional
  ELSE IF arg = DashDash THEN [s1 EXCEPT !.brk = TRUE, !.cls[at] = "terminator"]
  ELSE IF name = <<>> THEN positional
  ELSE IF name = NameUndefok
  THEN IF value.t = "None"
       THEN IF has_next
            THEN [s1 EXCEPT !.i = at + 2, !.cls[at] = "undefok", !.cls[at + 1] = "value",
                            !.undefok = @ \cup UndefokNames(args[at + 1])]
            ELSE missing
       ELSE [s1 EXCEPT !.cls[at] = "undefok", !.undefok = @ \cup UndefokNames(value.s)]
  ELSE IF name \in DOMAIN flag_dict
  THEN LET flag == flag_dict[name] IN
       IF FlagDef[flag].boolean /\ value.t = "None"
       THEN ParseFlagValue([s1 EXCEPT !.cls[at] = "flag"], flag, VBool(TRUE), at)
       ELSE IF value.t = "None"
       THEN IF has_next
            THEN ParseFlagValue([s1 EXCEPT !.i = at + 2, !.cls[at] = "flag",
                                           !.cls[at + 1] = "value"],
                                flag, VStr(args[at + 1]), at)
            ELSE missing
       ELSE ParseFlagValue([s1 EXCEPT !.cls[at] = "flag"], flag, value, at)
  ELSE IF NegatedFlag(flag_dict, name) /= "none"
  THEN ParseFlagValue([s1 EXCEPT !.cls[at] = "flag"],
                      NegatedFlag(flag_dict, name), VBool(FALSE), at)
  ELSE [s1 EXCEPT !.unknown_flags = Append(@, <<name, arg>>), !.cls[at] = "unknown"]

\* name, value = arg.lstrip('-').split('=', 1), eq being the index of the
\* first = of stripped (0: none, and value is None)
SplitNameValue(stripped, eq) ==
  IF eq > 0
  THEN [name |-> SubSeq(stripped, 1, eq - 1),
        value |-> VStr(SubSeq(stripped, eq + 1, Len(stripped)))]
  ELSE [name |-> stripped, value |-> VNone]

SplitArg(stripped) == SplitNameValue(stripped, IndexOf(stripped, "="))

NameValue(arg) == SplitArg(LStrip(arg, "-"))

ParseNameValue(args, flag_dict, use_gnu, st, nv) ==
  ParseArg(args, flag_dict, use_gnu, st, nv.name, nv.value)

\* One iteration of the while loop of _ParseArgs.
ParseArgsStep(args, flag_dict, use_gnu, st) ==
  ParseNameValue(args, flag_dict, use_gnu, st, NameValue(args[st.i]))

RECURSIVE ParseArgsLoop(_, _, _, _)
ParseArgsLoop(args, flag_dict, use_gnu, st) ==
  IF st.err /= "ok" \/ st.brk \/ st.i > Len(args) THEN st
  ELSE ParseArgsLoop(args, flag_dict, use_gnu, ParseArgsStep(args, flag_dict, use_gnu, st))

\* unparsed_args.extend(args[i:]), when the loop has not raised
ExtendUnparsed(args, st) ==
  IF st.err /= "ok" THEN st
  ELSE [st EXCEPT !.unparsed_args = @ \o SubSeq(args, st.i, Len(args))]

\* _ParseArgs(args): the loop, then unparsed_args.extend(args[i:])
ParseArgs(args, flag_dict, use_gnu, fo) ==
  ExtendUnparsed(args, ParseArgsLoop(args, flag_dict, use_gnu, ParseStart(args, fo)))

\* ------------------------------------------------------- top-level parse
\* FirstOffender that ignores undefok (a mutant).
FirstOffenderAny(unknown_flags, undefok) == IF unknown_flags = <<>> THEN 0 ELSE 1

\* FirstOffender that takes the last name not in undefok (a mutant).
FirstOffenderLast(unknown_flags, undefok) ==
  LET bad == {k \in 1..Len(unknown_flags) : unknown_flags[k][1] \notin undefok} IN
  IF bad = {} THEN 0 ELSE CHOOSE k \in bad : \A j \in bad : j <= k

\* The first (name, token) of unknown_flags whose name is not in undefok, as
\* the for loop of __call__ finds it; 0 when there is none.
FirstOffender(unknown_flags, undefok) ==
  LET bad == {k \in 1..Len(unknown_flags) : unknown_flags[k][1] \notin undefok} IN
  IF bad = {} THEN 0 ELSE CHOOSE k \in bad : \A j \in bad : k <= j

\* ArgsAfterProgram that keeps the program name (a mutant).
ArgsWithProgram(argv) == argv

\* argv[1:], what __call__ hands to the expander and the scanner.
ArgsAfterProgram(argv) == Tail(argv)

\* return [program_name] + unparsed_args
Returned(program_name, unparsed_args) == <<program_name>> \o unparsed_args

\* Raise that restores the Flag objects the call started with (a mutant).
RaiseRollback(out, fo, e) == [out EXCEPT !.err = e, !.fobj = fo]

\* An exception e leaves __call__: nothing is undone, the Flag objects stay
\* as the scan left them (out.fobj, not the fo the call started with).
Raise(out, fo, e) == [out EXCEPT !.err = e]

\* The outcome of a __call__ that has done nothing yet: the error raised
\* ("ok" when it returns), the returned list, the Flag objects and the parsed
\* mark afterwards, and what the scan did.
CallBase(fo, p) ==
  [err |-> "ok", errname |-> <<>>, ret |-> <<>>, fobj |-> fo, parsed |-> p,
   args |-> <<>>, scanned |-> FALSE, calls |-> <<>>, cls |-> <<>>,
   unknown_flags |-> <<>>, undefok |-> {}]

\* The end of __call__, v being what _AssertAllValidators raised: raise it,
\* or return ret.
ReturnOrRaise(fo, out, ret, v) ==
  IF v /= "ok" THEN Raise(out, fo, v) ELSE [out EXCEPT !.ret = ret]

\* The end of __call__ marking the registry parsed only when every validator
\* is satisfied (a mutant).
MarkAfterAssertReturn(f, fo, out, ret) ==
  IF AssertAllValidators(f, out.fobj) = "ok"
  THEN [out EXCEPT !.parsed = TRUE, !.ret = ret]
  ELSE Raise(out, fo, AssertAllValidators(f, out.fobj))

\* self.MarkAsParsed(); self._AssertAllValidators(); return ret
MarkAssertReturn(f, fo, out, ret) ==
  ReturnOrRaise(fo, [out EXCEPT !.parsed = TRUE], ret, AssertAllValidators(f, out.fobj))

\* __call__ after the scan st: its error, or UnrecognizedFlagError for the
\* unknown flag at index bad of unknown_flags (0: none), or the end.
AfterUnknownFlags(program_name, f, fo, scan, st, bad) ==
  IF st.err /= "ok" THEN Raise(scan, fo, st.err)
  ELSE IF bad /= 0
  THEN Raise([scan EXCEPT !.errname = st.unknown_flags[bad][1]], fo,
             "UnrecognizedFlagError")
  ELSE MarkAssertReturn(f, fo, scan, Returned(program_name, st.unparsed_args))

\* __call__ once _ParseArgs(args) has ended in st.
AfterParseArgs(program_name, f, fo, base, args, st) ==
  AfterUnknownFlags(program_name, f, fo,
                    [base EXCEPT !.args = args, !.scanned = TRUE, !.fobj = st.fobj,
                                 !.calls = st.calls, !.cls = st.cls,
                                 !.unknown_flags = st.unknown_flags,
                                 !.undefok = st.undefok],
                    st, FirstOffender(st.unknown_flags, st.undefok))

\* AfterReadFlagsFromFiles that marks the registry parsed before it raises
\* the expander's error (a mutant).
AfterReadFlagsFromFilesMarked(program_name, f, fo, use_gnu, base, rf) ==
  IF rf.err /= "ok" THEN Raise([base EXCEPT !.parsed = TRUE], fo, rf.err)
  ELSE AfterParseArgs(program_name, f, fo, base, rf.args,
                      ParseArgs(rf.args, f, use_gnu, fo))

\* __call__ once ReadFlagsFromFiles has given rf.
AfterReadFlagsFromFiles(program_name, f, fo, use_gnu, base, rf) ==
  IF rf.err /= "ok" THEN Raise(base, fo, rf.err)
  ELSE AfterParseArgs(program_name, f, fo, base, rf.args,
                      ParseArgs(rf.args, f, use_gnu, fo))

\* What one __call__(argv) does to the registry f, fo, p in the file system fs.
CallOutcome(argv, f, fo, use_gnu, fs, p) ==
  IF argv = <<>> THEN MarkAssertReturn(f, fo, CallBase(fo, p), <<>>)
  ELSE AfterReadFlagsFromFiles(argv[1], f, fo, use_gnu, CallBase(fo, p),
                               ReadFlagsFromFiles(fs, f, use_gnu, ArgsAfterProgram(argv),
                                                  FALSE))

\* ------------------------------------------------------ the last operation
NoLast ==
  [op |-> "init", step |-> 0, argv |-> <<>>, name |-> <<>>, obj |-> "none",
   value |-> VNone, caller_name |-> None, caller_id |-> None,
   found_module |-> None, found_id |-> None,
   err |-> "ok", errname |-> <<>>, ret |-> <<>>,
   args |-> <<>>, scanned |-> FALSE, calls |-> <<>>, cls |-> <<>>,
   unknown_flags |-> <<>>, undefok |-> {},
   allow_unparsed |-> TRUE, unparsed_access |-> FALSE,
   pre_fl |-> <<>>, pre_fobj |-> <<>>, pre_parsed |-> FALSE,
   pre_flags_by_module |-> <<>>, pre_flags_by_module_id |-> <<>>,
   pre_key_flags_by_module |-> <<>>, shortest_matches |-> <<>>,
   order |-> <<>>, serialized |-> <<>>, out |-> <<>>, out_again |-> <<>>,
   other |-> <<>>, registered |-> <<>>, reimport |-> <<>>, plain |-> TRUE,
   two_token |-> <<>>]

\* plain says that, so far, no flag that allows override was given to
\* __setitem__ and no key was deleted.
Before ==
  [NoLast EXCEPT !.step = last.step + 1, !.pre_fl = fl, !.pre_fobj = fobj,
                 !.pre_parsed = parsed, !.plain = last.plain]

\* The state after a __call__(argv) of outcome r.
CallDone(argv, r) ==
  /\ fobj' = r.fobj
  /\ parsed' = r.parsed
  /\ last' = [Before EXCEPT !.op = "Call", !.argv = argv, !.err = r.err,
                            !.errname = r.errname, !.ret = r.ret, !.args = r.args,
                            !.scanned = r.scanned, !.calls = r.calls, !.cls = r.cls,
                            !.unknown_flags = r.unknown_flags, !.undefok = r.undefok]
  /\ UNCHANGED <<fl, hidden, flags_by_module, flags_by_module_id,
                 key_flags_by_module, gnu, files>>

\* FLAGS(argv)
Call(argv) == CallDone(argv, CallOutcome(argv, fl, fobj, gnu, files, parsed))

\* --------------------------------------------------------------- registry
\* FindModuleDefiningFlag / FindModuleIdDefiningFlag over one of the module
\* dictionaries: the first module, in the dictionary's iteration order, that
\* lists a flag whose name or short_name is flagname.  The iteration order of
\* a dict is not fixed by the code, so this is the set of possible results.
FindDefining(by_module, flagname) ==
  LET hits == {m \in DOMAIN by_module :
                 \E k \in 1..Len(by_module[m]) :
                    \/ FlagDef[by_module[m][k]].name = flagname
                    \/ /\ FlagDef[by_module[m][k]].has_short
                       /\ FlagDef[by_module[m][k]].short_name = flagname}
  IN IF hits = {} THEN {None} ELSE hits

\* IsReimport that compares the module names only (a mutant).
IsReimportByName(found_module, found_id, caller_name, caller_id) ==
  found_module = caller_name

\* Lines 315-316: the flag was defined by a module with the calling module's
\* name but a different id, "the module is simply being imported a
\* subsequent time".  The caller is _helpers.GetCallingModuleObjectAndName().
IsReimport(found_module, found_id, caller_name, caller_id) ==
  found_module = caller_name /\ caller_id /= found_id

\* Replaces that only fills a free name (a mutant).
ReplacesOnlyNew(f1, fo, name, flag) == name \notin DOMAIN f1

\* Lines 328-330: whether fl[name] = flag is executed.
Replaces(f1, fo, name, flag) ==
  \/ name \notin DOMAIN f1
  \/ fo[f1[name]].using_default_value
  \/ ~fo[flag].using_default_value

\* __setitem__ without the test of line 322, short_name is not None (a
\* mutant).
SetItemOutcomeShortOfNone(f, fo, name, flag, reimport) ==
  LET d == FlagDef[flag] IN
  IF name = <<>> THEN [err |-> "FlagsError", fl |-> f]
  ELSE IF /\ name \in DOMAIN f
          /\ ~d.allow_override
          /\ ~FlagDef[f[name]].allow_override
  THEN IF reimport THEN [err |-> "ok", fl |-> f]
       ELSE [err |-> "DuplicateFlagError", fl |-> f]
  ELSE IF /\ d.short_name \in DOMAIN f
          /\ ~d.allow_override
          /\ ~FlagDef[f[d.short_name]].allow_override
  THEN [err |-> "DuplicateFlagError", fl |-> f]
  ELSE
    LET f1 == [n \in DOMAIN f \cup {d.short_name} |->
                 IF n = d.short_name THEN flag ELSE f[n]]
    IN
    IF Replaces(f1, fo, name, flag)
    THEN [err |-> "ok",
          fl |-> [n \in DOMAIN f1 \cup {name} |-> IF n = name THEN flag ELSE f1[n]]]
    ELSE [err |-> "ok", fl |-> f1]

\* __setitem__ without the test of the short name, lines 323-325 (a mutant).
SetItemOutcomeShortUntested(f, fo, name, flag, reimport) ==
  LET d == FlagDef[flag] IN
  IF name = <<>> THEN [err |-> "FlagsError", fl |-> f]
  ELSE IF /\ name \in DOMAIN f
          /\ ~d.allow_override
          /\ ~FlagDef[f[name]].allow_override
  THEN IF reimport THEN [err |-> "ok", fl |-> f]
       ELSE [err |-> "DuplicateFlagError", fl |-> f]
  ELSE
    LET f1 == IF d.has_short
              THEN [n \in DOMAIN f \cup {d.short_name} |->
                      IF n = d.short_name THEN flag ELSE f[n]]
              ELSE f
    IN
    IF Replaces(f1, fo, name, flag)
    THEN [err |-> "ok",
          fl |-> [n \in DOMAIN f1 \cup {name} |-> IF n = name THEN flag ELSE f1[n]]]
    ELSE [err |-> "ok", fl |-> f1]

\* __setitem__(name, flag) on the flag map f.  reimport is the outcome of the
\* test of lines 315-316.  err is the error raised, fl the flag map afterwards.
SetItemOutcome(f, fo, name, flag, reimport) ==
  LET d == FlagDef[flag] IN
  IF name = <<>> THEN [err |-> "FlagsError", fl |-> f]
  ELSE IF /\ name \in DOMAIN f
          /\ ~d.allow_override
          /\ ~FlagDef[f[name]].allow_override
  THEN IF reimport THEN [err |-> "ok", fl |-> f]
       ELSE [err |-> "DuplicateFlagError", fl |-> f]
  ELSE IF /\ d.has_short
          /\ d.short_name \in DOMAIN f
          /\ ~d.allow_override
          /\ ~FlagDef[f[d.short_name]].allow_override
  THEN [err |-> "DuplicateFlagError", fl |-> f]
  ELSE
    LET f1 == IF d.has_short
              THEN [n \in DOMAIN f \cup {d.short_name} |->
                      IF n = d.short_name THEN flag ELSE f[n]]
              ELSE f
    IN
    IF Replaces(f1, fo, name, flag)
    THEN [err |-> "ok",
          fl |-> [n \in DOMAIN f1 \cup {name} |-> IF n = name THEN flag ELSE f1[n]]]
    ELSE [err |-> "ok", fl |-> f1]

\* AddValidator(validator) on the Flag objects fo: GetFlag(flag_name) of the
\* validator's flag, then validators.append(validator).
AddValidatorOutcome(f, fo, v) ==
  IF ValidatorDef[v].flag_name \notin DOMAIN f
  THEN [err |-> "UnrecognizedFlagError", fobj |-> fo]
  ELSE [err |-> "ok",
        fobj |-> [fo EXCEPT ![f[ValidatorDef[v].flag_name]].validators = @ \cup {v}]]

\* The flag map after fv[flag.name] = flag for each flag of the list objs, in
\* order, on an empty FlagValues (what DEFINE_* does at import time).
RECURSIVE Defined(_, _)
Defined(objs, fo) ==
  IF objs = <<>> THEN [n \in {} |-> "none"]
  ELSE SetItemOutcome(Defined(SubSeq(objs, 1, Len(objs) - 1), fo), fo,
                      FlagDef[objs[Len(objs)]].name, objs[Len(objs)], FALSE).fl

\* __init__: every Flag object as constructed, nothing registered.
NewObjs == [o \in FlagObjs |-> NewFlagState(o)]

\* ------------------------------------------------------ registry operations
\* FLAGS[name] = flag, called from the module (caller_name, caller_id).
SetItem(name, flag, caller_name, caller_id) ==
  \E found_module \in FindDefining(flags_by_module, name),
     found_id \in FindDefining(flags_by_module_id, name) :
    LET r == SetItemOutcome(fl, fobj, name, flag,
                            IsReimport(found_module, found_id, caller_name, caller_id))
    IN
    /\ fl' = r.fl
    /\ last' = [Before EXCEPT !.op = "SetItem", !.name = name, !.obj = flag,
                              !.caller_name = caller_name, !.caller_id = caller_id,
                              !.found_module = found_module, !.found_id = found_id,
                              !.err = r.err,
                              !.plain = last.plain /\ ~FlagDef[flag].allow_override]
    /\ UNCHANGED <<fobj, hidden, flags_by_module, flags_by_module_id,
                   key_flags_by_module, parsed, gnu, files>>

\* dict.setdefault(key, []).append(flag)
Listed(by_module, key, flag) ==
  [m \in DOMAIN by_module \cup {key} |->
     IF m = key
     THEN Append(IF key \in DOMAIN by_module THEN by_module[key] ELSE <<>>, flag)
     ELSE by_module[m]]

\* _RegisterFlagByModule(module_name, flag)
RegisterFlagByModule(module_name, flag) ==
  /\ flags_by_module' = Listed(flags_by_module, module_name, flag)
  /\ last' = [Before EXCEPT !.op = "RegisterFlagByModule", !.obj = flag]
  /\ UNCHANGED <<fl, fobj, hidden, flags_by_module_id, key_flags_by_module,
                 parsed, gnu, files>>

\* _RegisterFlagByModuleId(module_id, flag)
RegisterFlagByModuleId(module_id, flag) ==
  /\ flags_by_module_id' = Listed(flags_by_module_id, module_id, flag)
  /\ last' = [Before EXCEPT !.op = "RegisterFlagByModuleId", !.obj = flag]
  /\ UNCHANGED <<fl, fobj, hidden, flags_by_module, key_flags_by_module,
                 parsed, gnu, files>>

\* _RegisterKeyFlagForModule(module_name, flag): appended unless listed.
RegisterKeyFlagForModule(module_name, flag) ==
  /\ key_flags_by_module' =
       IF /\ module_name \in DOMAIN key_flags_by_module
          /\ \E k \in 1..Len(key_flags_by_module[module_name]) :
               key_flags_by_module[module_name][k] = flag
       THEN key_flags_by_module
       ELSE Listed(key_flags_by_module, module_name, flag)
  /\ last' = [Before EXCEPT !.op = "RegisterKeyFlagForModule", !.obj = flag]
  /\ UNCHANGED <<fl, fobj, hidden, flags_by_module, flags_by_module_id,
                 parsed, gnu, files>>

\* _FlagIsRegistered that looks under the long name only (a mutant).
FlagIsRegisteredLongName(f, flag_obj) ==
  FlagDef[flag_obj].name \in DOMAIN f /\ f[FlagDef[flag_obj].name] = flag_obj

\* _FlagIsRegistered(flag_obj) in the flag map f
FlagIsRegistered(f, flag_obj) ==
  \/ FlagDef[flag_obj].name \in DOMAIN f /\ f[FlagDef[flag_obj].name] = flag_obj
  \/ /\ FlagDef[flag_obj].has_short
     /\ FlagDef[flag_obj].short_name \in DOMAIN f
     /\ f[FlagDef[flag_obj].short_name] = flag_obj

\* __RemoveFlagFromDictByModule: every occurrence of flag_obj leaves every list.
RECURSIVE Without(_, _)
Without(q, flag_obj) ==
  IF q = <<>> THEN <<>>
  ELSE (IF Head(q) = flag_obj THEN <<>> ELSE <<Head(q)>>) \o Without(Tail(q), flag_obj)

RemoveFlagFromDictByModule(by_module, flag_obj) ==
  [m \in DOMAIN by_module |-> Without(by_module[m], flag_obj)]

\* Deleted that removes nothing (a mutant).
DeletedNothing(f, flag_name) == f

\* del fl[flag_name]
Deleted(f, flag_name) == [n \in DOMAIN f \ {flag_name} |-> f[n]]

\* What del FLAGS.<flag_name> records: the three module indices it found.
BeforeDelAttr(flag_name) ==
  [Before EXCEPT !.op = "DelAttr", !.name = flag_name,
                 !.pre_flags_by_module = flags_by_module,
                 !.pre_flags_by_module_id = flags_by_module_id,
                 !.pre_key_flags_by_module = key_flags_by_module]

\* del FLAGS.<flag_name>
DelAttr(flag_name) ==
  IF flag_name \notin DOMAIN fl
  THEN /\ last' = [BeforeDelAttr(flag_name) EXCEPT !.err = "AttributeError"]
       /\ UNCHANGED <<fl, fobj, hidden, flags_by_module, flags_by_module_id,
                      key_flags_by_module, parsed, gnu, files>>
  ELSE LET flag_obj == fl[flag_name]
           f1 == Deleted(fl, flag_name)
           purge == ~FlagIsRegistered(f1, flag_obj)
       IN
       /\ fl' = f1
       /\ flags_by_module' =
            IF purge THEN RemoveFlagFromDictByModule(flags_by_module, flag_obj)
            ELSE flags_by_module
       /\ flags_by_module_id' =
            IF purge THEN RemoveFlagFromDictByModule(flags_by_module_id, flag_obj)
            ELSE flags_by_module_id
       /\ key_flags_by_module' =
            IF purge THEN RemoveFlagFromDictByModule(key_flags_by_module, flag_obj)
            ELSE key_flags_by_module
       /\ last' = [BeforeDelAttr(flag_name) EXCEPT !.obj = flag_obj, !.plain = FALSE]
       /\ UNCHANGED <<fobj, hidden, parsed, gnu, files>>

\* FLAGS.<name> = value
SetAttr(name, value) ==
  IF name \in hidden
  THEN /\ last' = [Before EXCEPT !.op = "SetAttr", !.name = name, !.value = value,
                                 !.err = "AttributeError"]
       /\ UNCHANGED <<fl, fobj, hidden, flags_by_module, flags_by_module_id,
                      key_flags_by_module, parsed, gnu, files>>
  ELSE IF name \notin DOMAIN fl
  THEN /\ last' = [Before EXCEPT !.op = "SetAttr", !.name = name, !.value = value,
                                 !.err = "KeyError"]
       /\ UNCHANGED <<fl, fobj, hidden, flags_by_module, flags_by_module_id,
                      key_flags_by_module, parsed, gnu, files>>
  ELSE LET fo1 == [fobj EXCEPT ![fl[name]].value = value,
                               ![fl[name]].using_default_value = FALSE]
       IN
       /\ fobj' = fo1
       /\ last' = [Before EXCEPT !.op = "SetAttr", !.name = name, !.value = value,
                                 !.obj = fl[name],
                                 !.err = AssertValidators(fo1[fl[name]].validators, fl, fo1)]
       /\ UNCHANGED <<fl, hidden, flags_by_module, flags_by_module_id,
                      key_flags_by_module, parsed, gnu, files>>

\* GetFlag(name): the Flag object, or UnrecognizedFlagError
GetFlag(f, name) ==
  IF name \in DOMAIN f THEN [err |-> "ok", res |-> f[name]]
  ELSE [err |-> "UnrecognizedFlagError", res |-> "none"]

\* GetAttrFails that does not look at the hidden names (a mutant).
GetAttrFailsUnregistered(f, h, name) == name \notin DOMAIN f

\* Whether FLAGS.<name> raises AttributeError (lines 363-366 of __getattr__).
GetAttrFails(f, h, name) == name \notin DOMAIN f \/ name \in h

\* ------------------------------------------------------- value operations
\* UnparsedAccess that never finds the access too early (a mutant).
UnparsedAccessNever(p, present) == FALSE

\* UnparsedAccess that looks at the parsed mark only (a mutant).
UnparsedAccessUnlessParsed(p, present) == ~p

\* The else branch of line 368: the registry is not marked parsed and the
\* flag is not present.
UnparsedAccess(p, present) == ~(p \/ present /= 0)

\* __getattr__(name) where GFLAGS_ALLOW_UNPARSED_FLAG_ACCESS is '1' (allow) or
\* not: the error raised, the value returned, and whether the access before
\* the parse was reported.
GetAttrOutcome(f, fo, h, p, name, allow) ==
  IF GetAttrFails(f, h, name)
  THEN [err |-> "AttributeError", value |-> VNone, unparsed_access |-> FALSE]
  ELSE IF ~UnparsedAccess(p, fo[f[name]].present)
  THEN [err |-> "ok", value |-> fo[f[name]].value, unparsed_access |-> FALSE]
  ELSE IF allow
  THEN [err |-> "ok", value |-> fo[f[name]].value, unparsed_access |-> TRUE]
  ELSE [err |-> "UnparsedFlagAccessError", value |-> VNone, unparsed_access |-> TRUE]

GetAttrDone(name, allow, r) ==
  /\ last' = [Before EXCEPT !.op = "GetAttr", !.name = name, !.allow_unparsed = allow,
                            !.obj = IF name \in DOMAIN fl THEN fl[name] ELSE "none",
                            !.err = r.err, !.value = r.value,
                            !.unparsed_access = r.unparsed_access]
  /\ UNCHANGED <<fl, fobj, hidden, flags_by_module, flags_by_module_id,
                 key_flags_by_module, parsed, gnu, files>>

\* FLAGS.<name>
GetAttr(name, allow) == GetAttrDone(name, allow, GetAttrOutcome(fl, fobj, hidden, parsed, name, allow))

\* The state after SetDefault(name, value) has called Flag.SetDefault: the
\* validators of the flag are asserted.
SetDefaultDone(name, value, fo1) ==
  /\ fobj' = fo1
  /\ last' = [Before EXCEPT !.op = "SetDefault", !.name = name, !.value = value,
                            !.obj = fl[name],
                            !.err = AssertValidators(fo1[fl[name]].validators, fl, fo1)]
  /\ UNCHANGED <<fl, hidden, flags_by_module, flags_by_module_id,
                 key_flags_by_module, parsed, gnu, files>>

\* SetDefault(name, value)
SetDefault(name, value) ==
  IF name \notin DOMAIN fl
  THEN /\ last' = [Before EXCEPT !.op = "SetDefault", !.name = name, !.value = value,
                                 !.err = "AttributeError"]
       /\ UNCHANGED <<fl, fobj, hidden, flags_by_module, flags_by_module_id,
                      key_flags_by_module, parsed, gnu, files>>
  ELSE SetDefaultDone(name, value, FlagSetDefault(fobj, fl[name], value))

\* MarkAsParsed()
MarkAsParsed ==
  /\ parsed' = TRUE
  /\ last' = [Before EXCEPT !.op = "MarkAsParsed"]
  /\ UNCHANGED <<fl, fobj, hidden, flags_by_module, flags_by_module_id,
                 key_flags_by_module, gnu, files>>

\* The loop of Reset that unparses nothing (a mutant).
UnparsedNone(f, fo) == fo

\* Every registered Flag object unparsed (the loop of Reset).
UnparsedAll(f, fo) ==
  [o \in FlagObjs |-> IF \E n \in DOMAIN f : f[n] = o THEN FlagUnparse(fo, o)[o] ELSE fo[o]]

\* Reset()
Reset ==
  /\ fobj' = UnparsedAll(fl, fobj)
  /\ parsed' = FALSE
  /\ last' = [Before EXCEPT !.op = "Reset"]
  /\ UNCHANGED <<fl, hidden, flags_by_module, flags_by_module_id,
                 key_flags_by_module, gnu, files>>

\* HideFlag(name)
HideFlag(name) ==
  /\ hidden' = hidden \cup {name}
  /\ last' = [Before EXCEPT !.op = "HideFlag", !.name = name]
  /\ UNCHANGED <<fl, fobj, flags_by_module, flags_by_module_id,
                 key_flags_by_module, parsed, gnu, files>>

\* ----------------------------------------------------- the parse scenarios
\* Command-line tokens.
TokA5        == DashDash \o NameA \o <<"=", "5">>      \* --a=5
TokA         == DashDash \o NameA                      \* --a
TokB         == DashDash \o NameB                      \* --b
TokB1        == Dash \o NameB                          \* -b
TokNoB       == DashDash \o NameNoB                    \* --nob
TokNoB1      == Dash \o NameNoB                        \* -nob
TokNoA       == DashDash \o NameNoA                    \* --noa
TokZZ5       == DashDash \o NameZZ \o <<"=", "5">>     \* --zz=5
TokNoZZ      == DashDash \o No \o NameZZ               \* --nozz
TokY         == DashDash \o <<"y">>                    \* --y
TokUndefokZZ == DashDash \o NameUndefok \o <<"=">> \o NameZZ            \* --undefok=zz
TokUndefokYZ == DashDash \o NameUndefok \o <<"=", "y", ",", " ">> \o NameZZ  \* --undefok=y, zz
TokUndefok   == DashDash \o NameUndefok                \* --undefok
TokFlagfileF == FlagfileEq2 \o <<"f">>                 \* --flagfile=f
TokA7        == DashDash \o NameA \o <<"=", "7">>      \* --a=7
TokAZZ       == DashDash \o NameA \o <<"=">> \o NameZZ \* --a=zz
TokB0        == DashDash \o NameB \o <<"=", "0">>      \* --b=0
TokNoB5      == DashDash \o NameNoB \o <<"=", "5">>    \* --nob=5
Tok5         == <<"5">>
TokProg      == <<"p">>

\* The flagfile f:  "--a=7", a blank line, a comment, " --b ".
FileF ==
  << DashDash \o NameA \o <<"=", "7", "\n">>,
     <<"\n">>,
     <<"#", "c", "\n">>,
     <<" ">> \o TokB \o <<" ", "\n">> >>

ParseFiles == [n \in {<<"f">>} |-> FileF]

\* Two programs: one defines a (short name x) and b; the other also defines
\* flags named noa, nob, undefok and flagfile and puts validator Va on a.
DefsSmall == <<"Fa", "Fb">>
DefsLarge == <<"Fa", "Fb", "Fnoa", "Fnob", "Fundefok", "Fflagfile">>

InitRegistry(f, fo) ==
  /\ fl = f
  /\ fobj = fo
  /\ hidden = {}
  /\ flags_by_module = [m \in {} |-> <<>>]
  /\ flags_by_module_id = [m \in {} |-> <<>>]
  /\ key_flags_by_module = [m \in {} |-> <<>>]
  /\ parsed = FALSE
  /\ files = ParseFiles
  /\ last = NoLast

\* The state when main() is about to call FLAGS(argv): the flags are defined,
\* UseGnuGetOpt was called or not.
InitParse ==
  /\ gnu \in BOOLEAN
  /\ \/ InitRegistry(Defined(DefsSmall, NewObjs), NewObjs)
     \/ InitRegistry(Defined(DefsLarge, NewObjs),
                     AddValidatorOutcome(Defined(DefsLarge, NewObjs), NewObjs, "Va").fobj)

\* The argument vectors over a set of tokens: empty, or a program name and up
\* to MaxArgs tokens.
Argvs(tokens) ==
  {<<>>} \cup
  UNION {{<<prog>> \o a : a \in [1..n -> tokens]} : prog \in {TokProg, TokA5}, n \in 0..MaxArgs}

GeneralTokens == {TokA5, TokA, Tok5, NameZZ, TokB, TokNoB, DashDash, TokZZ5, TokFlagfileF}

\* One parse per process (section 5 of the design).
NextParse == last.op = "init" /\ \E argv \in Argvs(GeneralTokens) : Call(argv)

SpecParse == InitParse /\ [][NextParse]_vars

\* Flags given with their value in one token.
ValueTokens ==
  {TokA5, TokA7, TokAZZ, TokB0, TokNoB5, TokUndefokZZ, TokFlagfileF, TokZZ5}

NextValue == last.op = "init" /\ \E argv \in Argvs(ValueTokens) : Call(argv)

SpecValue == InitParse /\ [][NextValue]_vars

\* Boolean flags and their negations.
BooleanTokens == {TokB, TokB1, TokNoB, TokNoB1, TokNoA, TokNoZZ, Tok5, TokA5}

NextBoolean == last.op = "init" /\ \E argv \in Argvs(BooleanTokens) : Call(argv)

SpecBoolean == InitParse /\ [][NextBoolean]_vars

\* Unknown flags and undefok.
UndefokTokens ==
  {TokZZ5, TokNoZZ, TokY, TokUndefokZZ, TokUndefokYZ, TokUndefok, NameZZ, TokA, TokA5}

NextUndefok == last.op = "init" /\ \E argv \in Argvs(UndefokTokens) : Call(argv)

SpecUndefok == InitParse /\ [][NextUndefok]_vars

\* ------------------------------------------------- the flagfile scenarios
\* The longest file f.
MaxLines == 3

\* The lines f is made of: a flag, a blank line, comments, a flag with blanks
\* around it, a directive naming g, a directive naming f itself.
LineA7        == DashDash \o NameA \o <<"=", "7", "\n">>
LineBlank     == <<" ", "\n">>
LineHash      == <<"#", "c", "\n">>
LineSlashes   == <<"/", "/", "c", "\n">>
LineB         == <<" ">> \o TokB \o <<" ", "\n">>
LineFlagfileG == FlagfileEq2 \o <<"g", "\n">>
LineFlagfileF == FlagfileEq1 \o <<"f", " ", "\n">>

FileLines ==
  {LineA7, LineBlank, LineHash, LineSlashes, LineB, LineFlagfileG, LineFlagfileF}

\* What g may hold: a flag; a comment, a directive back to f and a flag; a
\* directive naming g itself and a last line without a newline; a directive
\* naming a file that does not exist.
FilesG ==
  { << DashDash \o NameA \o <<"=", "5", "\n">> >>,
    << LineSlashes, LineFlagfileF, DashDash \o NameA \o <<"=", "5", "\n">> >>,
    << LineFlagfileG, TokNoB >>,
    << FlagfileEq2 \o <<"h", "\n">> >> }

FileSystems ==
  UNION {{[n \in {<<"f">>, <<"g">>} |-> IF n = <<"f">> THEN ff ELSE gg] :
            ff \in [1..k -> FileLines], gg \in FilesG} : k \in 0..MaxLines}

\* The argument vectors given to ReadFlagsFromFiles.
TokFlagfileG == FlagfileEq1 \o <<"g">>                  \* -flagfile=g

ExpandArgvs ==
  { <<TokFlagfileF>>, <<TokFlagfileG>>, <<Flagfile2, <<"f">>>>,
    <<TokA5, TokFlagfileF, TokB>>, <<TokFlagfileG, TokFlagfileF>> }

\* The state after ReadFlagsFromFiles(argv, force_gnu) of outcome r: the
\* registry is as before.
ReadFlagsDone(argv, r) ==
  /\ last' = [Before EXCEPT !.op = "ReadFlagsFromFiles", !.argv = argv,
                            !.err = r.err, !.ret = r.args]
  /\ UNCHANGED <<fl, fobj, hidden, flags_by_module, flags_by_module_id,
                 key_flags_by_module, parsed, gnu, files>>

\* FLAGS.ReadFlagsFromFiles(argv, force_gnu)
ReadFlags(argv, force_gnu) ==
  ReadFlagsDone(argv, ReadFlagsFromFiles(files, fl, gnu, argv, force_gnu))

\* The flags a and b are defined, the files f and g exist.
InitFlagfile ==
  /\ fl = Defined(DefsSmall, NewObjs)
  /\ fobj = NewObjs
  /\ hidden = {}
  /\ flags_by_module = [m \in {} |-> <<>>]
  /\ flags_by_module_id = [m \in {} |-> <<>>]
  /\ key_flags_by_module = [m \in {} |-> <<>>]
  /\ parsed = FALSE
  /\ gnu = FALSE
  /\ files \in FileSystems
  /\ last = NoLast

NextFlagfile ==
  /\ last.op = "init"
  /\ \E argv \in ExpandArgvs, force_gnu \in BOOLEAN : ReadFlags(argv, force_gnu)

SpecFlagfile == InitFlagfile /\ [][NextFlagfile]_vars

\* ------------------------------------------------ the two forms of a flag
\* --name=value and --name value
OneTokenForm(name, value) == <<DashDash \o name \o <<"=">> \o value>>
TwoTokenForm(name, value) == <<DashDash \o name, value>>

\* The state after FLAGS(argv) of outcome r, argv giving name its value in
\* one token; two is the outcome of FLAGS(argv2) from the same state, argv2
\* being argv with the two-token form in place of the one-token form.
CallFormsDone(name, value, argv, r, argv2, two) ==
  /\ fobj' = r.fobj
  /\ parsed' = r.parsed
  /\ last' = [Before EXCEPT !.op = "CallForms", !.name = name, !.value = VStr(value),
                            !.argv = argv, !.err = r.err,
                            !.errname = r.errname, !.ret = r.ret, !.args = r.args,
                            !.scanned = r.scanned, !.calls = r.calls, !.cls = r.cls,
                            !.unknown_flags = r.unknown_flags, !.undefok = r.undefok,
                            !.two_token = [argv |-> argv2, err |-> two.err,
                                           errname |-> two.errname, ret |-> two.ret,
                                           fobj |-> two.fobj, parsed |-> two.parsed,
                                           args |-> two.args, scanned |-> two.scanned]]
  /\ UNCHANGED <<fl, hidden, flags_by_module, flags_by_module_id,
                 key_flags_by_module, gnu, files>>

CallFormsOf(name, value, argv, argv2) ==
  CallFormsDone(name, value, argv, CallOutcome(argv, fl, fobj, gnu, files, parsed),
                argv2, CallOutcome(argv2, fl, fobj, gnu, files, parsed))

\* FLAGS([p] + before + [--name=value] + after), and the same call with
\* --name value.
CallForms(before, name, value, after) ==
  CallFormsOf(name, value,
              <<TokProg>> \o before \o OneTokenForm(name, value) \o after,
              <<TokProg>> \o before \o TwoTokenForm(name, value) \o after)

\* The longest sequence of tokens after the flag.
MaxAfter == 2

\* The flags given (a is an int flag, noa and undefok are string flags of the
\* larger program) and their values.
FormNames == {NameA, NameNoA, NameUndefok}
FormValues == {<<"5">>, NameZZ, <<>>, <<"-", "5">>, DashDash, TokFlagfileF, TokB, TokNoA}

\* The tokens before the flag (none or one) and after it.
TokensBefore == {<<>>, <<Tok5>>, <<DashDash>>, <<TokB>>, <<TokFlagfileF>>, <<TokNoA>>}
TokensAfter == {Tok5, TokB, TokZZ5, TokFlagfileF, Flagfile2}

NextForms ==
  /\ last.op = "init"
  /\ \E before \in TokensBefore, name \in FormNames, value \in FormValues,
        n \in 0..MaxAfter :
       \E after \in [1..n -> TokensAfter] : CallForms(before, name, value, after)

SpecForms == InitParse /\ [][NextForms]_vars

\* ------------------------------------------- the directive after tokens
\* The longest sequence of tokens before the directive.
MaxBefore == 2

\* The tokens before the directive --flagfile=f and after it.
StopTokens == {Tok5, DashDash, Dash, TokB, TokA, TokA5, TokNoA, TokUndefok}
StopArgvs ==
  UNION {{<<TokProg>> \o before \o <<TokFlagfileF>> \o after :
            before \in [1..n -> StopTokens], after \in {<<>>, <<Tok5>>}} : n \in 0..MaxBefore}

NextStops == last.op = "init" /\ \E argv \in StopArgvs : Call(argv)

SpecStops == InitParse /\ [][NextStops]_vars

\* --------------------------------------------------- the value scenarios
\* The number of operations in one behaviour of SpecValues.
MaxValueOps == 3

\* The names read and set, the values given, the argument vectors parsed.
ValueNames == {NameA, NameB}
GivenValues == {VInt(5), VInt(9), VBool(FALSE)}
ValueArgvs ==
  { <<>>, <<TokProg, TokA5>>, <<TokProg, TokA7>>, <<TokProg, TokNoB>>,
    <<TokProg, TokA7, TokZZ5>>, <<TokProg, TokA7, TokA>> }

\* The flags a and b are defined; a validator wants a /= 5, another wants b
\* not False.
InitValues ==
  /\ fl = Defined(DefsSmall, NewObjs)
  /\ fobj = AddValidatorOutcome(fl, AddValidatorOutcome(fl, NewObjs, "Va").fobj, "Vb").fobj
  /\ hidden = {}
  /\ flags_by_module = [m \in {} |-> <<>>]
  /\ flags_by_module_id = [m \in {} |-> <<>>]
  /\ key_flags_by_module = [m \in {} |-> <<>>]
  /\ parsed = FALSE
  /\ gnu = FALSE
  /\ files = ParseFiles
  /\ last = NoLast

NextValues ==
  /\ last.step < MaxValueOps
  /\ \/ \E name \in ValueNames, allow \in BOOLEAN : GetAttr(name, allow)
     \/ \E name \in ValueNames, value \in GivenValues : SetAttr(name, value)
     \/ \E name \in ValueNames, value \in GivenValues : SetDefault(name, value)
     \/ \E argv \in ValueArgvs : Call(argv)
     \/ MarkAsParsed
     \/ Reset
     \/ HideFlag(NameB)

SpecValues == InitValues /\ [][NextValues]_vars

\* ------------------------------------------------- the hiding scenarios
\* The number of operations in one behaviour of SpecHide.
MaxHideOps == 3

\* The names hidden, read and set (a has the short name x), the values set,
\* the argument vectors parsed.
TokX7 == Dash \o NameX \o <<"=", "7">>                  \* -x=7
HideNames == {NameA, NameX, NameB}
HideValues == {VInt(9), VInt(3)}
HideArgvs == {<<TokProg, TokA5>>, <<TokProg, TokX7>>, <<TokProg, TokB>>}

InitHide ==
  /\ gnu = FALSE
  /\ InitRegistry(Defined(DefsSmall, NewObjs), NewObjs)

NextHide ==
  /\ last.step < MaxHideOps
  /\ \/ \E name \in HideNames : HideFlag(name)
     \/ \E name \in HideNames, allow \in BOOLEAN : GetAttr(name, allow)
     \/ \E name \in HideNames, value \in HideValues : SetAttr(name, value)
     \/ \E argv \in HideArgvs : Call(argv)

SpecHide == InitHide /\ [][NextHide]_vars

\* ------------------------------------------- the failing expansions
\* Flag tokens, a directive naming f, a directive naming g and a directive
\* with no argument.
FailTokens == {TokA5, TokB, Tok5, DashDash, TokFlagfileF, TokFlagfileG, Flagfile2}

\* g is missing, or g names the missing file h.
FailFiles ==
  {ParseFiles,
   [n \in {<<"f">>, <<"g">>} |->
      IF n = <<"f">> THEN FileF ELSE << FlagfileEq2 \o <<"h", "\n">> >>]}

InitFails ==
  /\ gnu \in BOOLEAN
  /\ fl = Defined(DefsSmall, NewObjs)
  /\ fobj = NewObjs
  /\ hidden = {}
  /\ flags_by_module = [m \in {} |-> <<>>]
  /\ flags_by_module_id = [m \in {} |-> <<>>]
  /\ key_flags_by_module = [m \in {} |-> <<>>]
  /\ parsed = FALSE
  /\ files \in FailFiles
  /\ last = NoLast

\* MarkAsParsed() or not, then one parse.
NextFails ==
  \/ last.op = "init" /\ MarkAsParsed
  \/ last.op \in {"init", "MarkAsParsed"} /\ \E argv \in Argvs(FailTokens) : Call(argv)

SpecFails == InitFails /\ [][NextFails]_vars

\* ------------------------------------------------- shortest unique prefixes
\* The characters of flag names in the order of their code points.
CharOrder ==
  <<"a", "b", "c", "d", "e", "f", "g", "h", "i", "j", "k", "l", "m",
    "n", "o", "p", "q", "r", "s", "t", "u", "v", "w", "x", "y", "z">>

Ord(ch) == CHOOSE i \in 1..Len(CharOrder) : CharOrder[i] = ch

\* s < t as Python compares strings.
RECURSIVE StrLess(_, _)
StrLess(s, t) ==
  IF t = <<>> THEN FALSE
  ELSE IF s = <<>> THEN TRUE
  ELSE IF Head(s) /= Head(t) THEN Ord(Head(s)) < Ord(Head(t))
  ELSE StrLess(Tail(s), Tail(t))

\* The entries of sorted_flags before the sort: every key of the flag map
\* and, for every key of a boolean flag, 'no' + key (tagged, for a name may
\* be appended twice).
FlagNameEntries(f) ==
  {<<n, 0>> : n \in DOMAIN f}
    \cup {<<<<"n", "o">> \o n, 1>> : n \in {k \in DOMAIN f : FlagDef[f[k]].boolean}}

\* sorted_flags.sort()
RECURSIVE SortedNames(_)
SortedNames(entries) ==
  IF entries = {} THEN <<>>
  ELSE LET least == CHOOSE x \in entries :
                      \A y \in entries :
                        \/ StrLess(x[1], y[1])
                        \/ x[1] = y[1] /\ x[2] <= y[2]
       IN <<least[1]>> \o SortedNames(entries \ {least})

\* The inner loop over curr_idx: the first index (from 0) at which curr has
\* a character and next_flag is None, is exhausted or differs; -1 when the
\* loop ends without a break.
RECURSIVE FirstBreak(_, _, _, _)
FirstBreak(curr, has_next, next_flag, curr_idx) ==
  IF curr_idx >= Len(curr) THEN -1
  ELSE IF \/ ~has_next
          \/ curr_idx >= Len(next_flag)
          \/ curr[curr_idx + 1] /= next_flag[curr_idx + 1]
  THEN curr_idx
  ELSE FirstBreak(curr, has_next, next_flag, curr_idx + 1)

\* curr[:k]
Slice(curr, k) == SubSeq(curr, 1, IF k < Len(curr) THEN k ELSE Len(curr))

\* shortest_matches[curr] = value
Matched(shortest_matches, curr, value) ==
  [n \in DOMAIN shortest_matches \cup {curr} |->
     IF n = curr THEN value ELSE shortest_matches[n]]

\* The outer loop from flag_idx on (indices from 1), brk being the outcome of
\* the inner loop for sorted_flags[flag_idx].
RECURSIVE PrefixLoop(_, _, _, _)
PrefixStep(sorted_flags, flag_idx, prev_idx, shortest_matches, brk) ==
  IF brk >= 0
  THEN PrefixLoop(sorted_flags, flag_idx + 1, brk,
                  Matched(shortest_matches, sorted_flags[flag_idx],
                          Slice(sorted_flags[flag_idx],
                                (IF prev_idx > brk THEN prev_idx ELSE brk) + 1)))
  ELSE PrefixLoop(sorted_flags, flag_idx + 1, Len(sorted_flags[flag_idx]),
                  Matched(shortest_matches, sorted_flags[flag_idx],
                          sorted_flags[flag_idx]))

\* The outer loop that forgets prev_idx (a mutant).
PrefixLoopNextOnly(sorted_flags, flag_idx, prev_idx, shortest_matches) ==
  IF flag_idx > Len(sorted_flags) THEN shortest_matches
  ELSE PrefixStep(sorted_flags, flag_idx, 0, shortest_matches,
                  FirstBreak(sorted_flags[flag_idx], flag_idx < Len(sorted_flags),
                             IF flag_idx < Len(sorted_flags)
                             THEN sorted_flags[flag_idx + 1] ELSE <<>>,
                             0))

PrefixLoop(sorted_flags, flag_idx, prev_idx, shortest_matches) ==
  IF flag_idx > Len(sorted_flags) THEN shortest_matches
  ELSE PrefixStep(sorted_flags, flag_idx, prev_idx, shortest_matches,
                  FirstBreak(sorted_flags[flag_idx], flag_idx < Len(sorted_flags),
                             IF flag_idx < Len(sorted_flags)
                             THEN sorted_flags[flag_idx + 1] ELSE <<>>,
                             0))

\* ShortestUniquePrefixes(fl)
ShortestUniquePrefixes(f) ==
  PrefixLoop(SortedNames(FlagNameEntries(f)), 1, 0, [n \in {} |-> <<>>])

\* self.ShortestUniquePrefixes(self.FlagDict()), as _ParseArgs calls it.
ShortestUniquePrefixesOfFlagDict ==
  /\ last' = [Before EXCEPT !.op = "ShortestUniquePrefixes",
                            !.shortest_matches = ShortestUniquePrefixes(fl)]
  /\ UNCHANGED <<fl, fobj, hidden, flags_by_module, flags_by_module_id,
                 key_flags_by_module, parsed, gnu, files>>

\* -------------------------------------------------- the prefix scenarios
\* The number of registry operations in one behaviour of SpecPrefixes.
MaxPrefixOps == 4

\* The flags the program's modules define: a (short name x), ab, the
\* booleans b and no, and noa and nob.
PrefixObjs == {"Fa", "Fab", "Fb", "Fno", "Fnoa", "Fnob"}

InitPrefixes ==
  /\ InitRegistry([n \in {} |-> "none"], NewObjs)
  /\ gnu = FALSE

NextPrefixes ==
  /\ last.step < MaxPrefixOps
  /\ \/ \E flag \in PrefixObjs : SetItem(FlagDef[flag].name, flag, "m", "id1")
     \/ ShortestUniquePrefixesOfFlagDict

SpecPrefixes == InitPrefixes /\ [][NextPrefixes]_vars

\* ----------------------------------------------------------- serialization
DigitChar(d) == CHOOSE ch \in Digits : DigitVal(ch) = d

\* str(n) of an int n >= 0
RECURSIVE IntText(_)
IntText(n) ==
  IF n < 10 THEN <<DigitChar(n)>> ELSE IntText(n \div 10) \o <<DigitChar(n % 10)>>

\* The text the flag's serializer gives for a value.
ValueText(v) ==
  CASE v.t = "int"  -> IntText(v.n)
    [] v.t = "str"  -> v.s
    [] v.t = "bool" -> IF v.b THEN <<"t", "r", "u", "e">> ELSE <<"f", "a", "l", "s", "e">>
    [] OTHER        -> <<>>

\* Flag.Serialize(): --name=value
FlagSerialize(fo, o) == DashDash \o FlagDef[o].name \o <<"=">> \o ValueText(fo[o].value)

\* The orders in which FlagDict().values() may give the values: one for
\* every arrangement of the keys (the order of a dict is not fixed).
KeyOrders(f) ==
  {q \in [1..Cardinality(DOMAIN f) -> DOMAIN f] :
     \A i, j \in 1..Cardinality(DOMAIN f) : q[i] = q[j] => i = j}

\* SerializedFlags that does not look at the value (a mutant).
SerializedFlagsWithNone(f, fo, order) == [k \in 1..Len(order) |-> f[order[k]]]

\* The Flag objects FlagsIntoString serializes, in order: flag.value is not
\* None, for flag in self.FlagDict().values().
RECURSIVE SerializedFlags(_, _, _)
SerializedFlags(f, fo, order) ==
  IF order = <<>> THEN <<>>
  ELSE (IF fo[f[Head(order)]].value.t /= "None" THEN <<f[Head(order)]>> ELSE <<>>)
       \o SerializedFlags(f, fo, Tail(order))

\* Joined that ends no line (a mutant).
RECURSIVE JoinedWithoutNewline(_, _)
JoinedWithoutNewline(fo, q) ==
  IF q = <<>> THEN <<>>
  ELSE FlagSerialize(fo, Head(q)) \o JoinedWithoutNewline(fo, Tail(q))

\* s += flag.Serialize() + '\n', for the flags of q
RECURSIVE Joined(_, _)
Joined(fo, q) ==
  IF q = <<>> THEN <<>>
  ELSE FlagSerialize(fo, Head(q)) \o <<"\n">> \o Joined(fo, Tail(q))

\* FlagsIntoString(), the values of the dict coming in the given order
FlagsIntoString(f, fo, order) == Joined(fo, SerializedFlags(f, fo, order))

\* The lines of the text s (each ended by a newline).
RECURSIVE SplitLines(_)
SplitLines(s) ==
  LET k == IndexOf(s, "\n") IN
  IF s = <<>> THEN <<>>
  ELSE IF k = 0 THEN <<s>>
  ELSE <<SubSeq(s, 1, k - 1)>> \o SplitLines(SubSeq(s, k + 1, Len(s)))

\* FLAGS.FlagsIntoString()
FlagsIntoStringCall(order) ==
  /\ last' = [Before EXCEPT !.op = "FlagsIntoString", !.order = order,
                            !.serialized = SerializedFlags(fl, fobj, order),
                            !.out = FlagsIntoString(fl, fobj, order)]
  /\ UNCHANGED <<fl, fobj, hidden, flags_by_module, flags_by_module_id,
                 key_flags_by_module, parsed, gnu, files>>

\* The state after s = FLAGS.FlagsIntoString(); FLAGS.Reset();
\* FLAGS([program] + lines of s), r being the outcome of that call;
\* FlagsIntoString() is then called again.
SerializeAndParseDone(order, s, r) ==
  /\ fobj' = r.fobj
  /\ parsed' = r.parsed
  /\ last' = [Before EXCEPT !.op = "SerializeAndParse", !.order = order, !.out = s,
                            !.argv = <<TokProg>> \o SplitLines(s),
                            !.err = r.err, !.ret = r.ret,
                            !.out_again = FlagsIntoString(fl, r.fobj, order)]
  /\ UNCHANGED <<fl, hidden, flags_by_module, flags_by_module_id,
                 key_flags_by_module, gnu, files>>

SerializeAndParseLines(order, s) ==
  SerializeAndParseDone(order, s,
                        CallOutcome(<<TokProg>> \o SplitLines(s), fl,
                                    UnparsedAll(fl, fobj), gnu, files, FALSE))

SerializeAndParse(order) ==
  SerializeAndParseLines(order, FlagsIntoString(fl, fobj, order))

\* --------------------------------------------- the serialization scenarios
\* The number of operations in one behaviour of SpecSerialize.
MaxSerializeOps == 3

\* The flags a (int, short name x), b (boolean) and noa (string).
DefsSerialize == <<"Fa", "Fb", "Fnoa">>

\* The attribute sets: a name and the value given.
SerializeSets ==
  { <<NameA, VInt(5)>>, <<NameX, VInt(12)>>, <<NameA, VNone>>,
    <<NameB, VBool(TRUE)>>, <<NameB, VBool(FALSE)>>,
    <<NameNoA, VStr(<<"v">>)>>, <<NameNoA, VStr(<<>>)>>,
    <<NameNoA, VStr(<<"v", "\n", "w">>)>> }

InitSerialize ==
  /\ gnu \in BOOLEAN
  /\ InitRegistry(Defined(DefsSerialize, NewObjs), NewObjs)

NextSerialize ==
  /\ last.step < MaxSerializeOps
  /\ \/ \E nv \in SerializeSets : SetAttr(nv[1], nv[2])
     \/ \E order \in KeyOrders(fl) : FlagsIntoStringCall(order)
     \/ \E order \in KeyOrders(fl) : SerializeAndParse(order)

SpecSerialize == InitSerialize /\ [][NextSerialize]_vars

\* -------------------------------------------------------------- the merge
\* The outcome of AppendFlagValues that has done nothing yet: the error, the
\* flag map, and the names self[flag_name] = flag was executed for.
AppendStart(f) == [err |-> "ok", fl |-> f, registered |-> <<>>]

\* AppendFlagValues that registers under every key of the other flag map
\* (a mutant).
RECURSIVE AppendLoopEveryKey(_, _, _, _, _, _)
AppendLoopEveryKey(fo, other, order, k, reimport, out) ==
  IF k > Len(order) \/ out.err /= "ok" THEN out
  ELSE AppendLoopEveryKey(fo, other, order, k + 1, reimport,
         [err |-> SetItemOutcome(out.fl, fo, order[k], other[order[k]],
                                 reimport[order[k]]).err,
          fl |-> SetItemOutcome(out.fl, fo, order[k], other[order[k]],
                                reimport[order[k]]).fl,
          registered |-> Append(out.registered, order[k])])

\* The loop of AppendFlagValues over the items of the other flag map, which
\* come in the given order, from the k-th on; reimport[name] is the outcome
\* of the test of lines 315-316 for that name.
RECURSIVE AppendLoop(_, _, _, _, _, _)
AppendStep(fo, other, order, k, reimport, out, r) ==
  AppendLoop(fo, other, order, k + 1, reimport,
             [err |-> r.err, fl |-> r.fl,
              registered |-> Append(out.registered, order[k])])

AppendLoop(fo, other, order, k, reimport, out) ==
  IF k > Len(order) \/ out.err /= "ok" THEN out
  ELSE IF order[k] = FlagDef[other[order[k]]].name
  THEN AppendStep(fo, other, order, k, reimport, out,
                  SetItemOutcome(out.fl, fo, order[k], other[order[k]],
                                 reimport[order[k]]))
  ELSE AppendLoop(fo, other, order, k + 1, reimport, out)

\* The state after AppendFlagValues of outcome r.
AppendFlagValuesDone(other, order, caller_name, caller_id, reimport, r) ==
  /\ fl' = r.fl
  /\ last' = [Before EXCEPT !.op = "AppendFlagValues", !.other = other,
                            !.order = order, !.caller_name = caller_name,
                            !.caller_id = caller_id, !.err = r.err,
                            !.registered = r.registered, !.reimport = reimport,
                            !.plain = /\ last.plain
                                      /\ \A n \in DOMAIN other :
                                           ~FlagDef[other[n]].allow_override]
  /\ UNCHANGED <<fobj, hidden, flags_by_module, flags_by_module_id,
                 key_flags_by_module, parsed, gnu, files>>

AppendFlagValuesFrom(other, order, caller_name, caller_id, reimport) ==
  AppendFlagValuesDone(other, order, caller_name, caller_id, reimport,
                       AppendLoop(fobj, other, order, 1, reimport, AppendStart(fl)))

\* AppendFlagValues(flag_values), called from the module (caller_name,
\* caller_id); other is flag_values.FlagDict().
AppendFlagValues(other, order, caller_name, caller_id) ==
  \E found_module \in [DOMAIN other -> UNION {FindDefining(flags_by_module, n) : n \in DOMAIN other}],
     found_id \in [DOMAIN other -> UNION {FindDefining(flags_by_module_id, n) : n \in DOMAIN other}] :
    /\ \A n \in DOMAIN other :
         /\ found_module[n] \in FindDefining(flags_by_module, n)
         /\ found_id[n] \in FindDefining(flags_by_module_id, n)
    /\ AppendFlagValuesFrom(other, order, caller_name, caller_id,
                             [n \in DOMAIN other |->
                                IsReimport(found_module[n], found_id[n],
                                           caller_name, caller_id)])

\* ---------------------------------------------------- the merge scenarios
\* The number of registry operations in one behaviour of SpecMerge.
MaxMergeOps == 3

\* The flags: a with short name x, a that allows override, b, and c with
\* short name x.
MergeObjs == {"Fa", "Fa2", "Fb", "Fc"}
MergeNames == {NameA, NameX, NameC}
MergeIds == {"id1", "id2"}

\* The flag maps of the other FlagValues: a alone; a defined and then
\* overridden (a is the overriding flag, x still the first one); b and c;
\* the overriding a alone.
OtherFlagDicts ==
  { Defined(<<"Fa">>, NewObjs), Defined(<<"Fa", "Fa2">>, NewObjs),
    Defined(<<"Fb", "Fc">>, NewObjs), Defined(<<"Fa2">>, NewObjs) }

\* Nothing is registered, or the module m (id1) has defined a.
InitMerge ==
  /\ gnu = FALSE
  /\ \/ InitRegistry([n \in {} |-> "none"], NewObjs)
     \/ /\ fl = Defined(<<"Fa">>, NewObjs)
        /\ fobj = NewObjs
        /\ hidden = {}
        /\ flags_by_module = ("m" :> <<"Fa">>)
        /\ flags_by_module_id = ("id1" :> <<"Fa">>)
        /\ key_flags_by_module = [m \in {} |-> <<>>]
        /\ parsed = FALSE
        /\ files = ParseFiles
        /\ last = NoLast

NextMerge ==
  /\ last.step < MaxMergeOps
  /\ \/ \E flag \in MergeObjs : SetItem(FlagDef[flag].name, flag, "m", "id1")
     \/ \E name \in MergeNames : DelAttr(name)
     \/ \E name \in {NameA} : SetAttr(name, VInt(9))
     \/ \E other \in OtherFlagDicts, cid \in MergeIds :
          \E order \in KeyOrders(other) : AppendFlagValues(other, order, "m", cid)

SpecMerge == InitMerge /\ [][NextMerge]_vars

\* --------------------------------------------- the deregistration scenarios
\* The number of registry operations in one behaviour of SpecDeregister.
MaxDeregisterOps == 3

\* Registries of a program whose modules m and m2 have defined flags:
\* a (short name x) and b defined by m, a being a key flag of m;
\* a defined by m and then overridden by m2 with a flag without short name;
\* a defined by a module loaded twice and declared key by m and m2.
DeregisterRegistries ==
  { [fl |-> (NameA :> "Fa") @@ (NameX :> "Fa") @@ (NameB :> "Fb"),
     flags_by_module |-> ("m" :> <<"Fa", "Fb">>),
     flags_by_module_id |-> ("id1" :> <<"Fa", "Fb">>),
     key_flags_by_module |-> ("m" :> <<"Fa">>)],
    [fl |-> (NameA :> "Fa2") @@ (NameX :> "Fa"),
     flags_by_module |-> ("m" :> <<"Fa">>) @@ ("m2" :> <<"Fa2">>),
     flags_by_module_id |-> ("id1" :> <<"Fa">>) @@ ("id2" :> <<"Fa2">>),
     key_flags_by_module |-> ("m" :> <<"Fa">>) @@ ("m2" :> <<"Fa2">>)],
    [fl |-> (NameA :> "Fa") @@ (NameX :> "Fa"),
     flags_by_module |-> ("m" :> <<"Fa", "Fa">>),
     flags_by_module_id |-> ("id1" :> <<"Fa">>) @@ ("id2" :> <<"Fa">>),
     key_flags_by_module |-> ("m" :> <<"Fa">>) @@ ("m2" :> <<"Fa">>)] }

DeregisterNames == {NameA, NameX, NameB, NameC}
DeregisterObjs == {"Fa", "Fa2", "Fb"}
DeregisterModules == {"m", "m2"}

InitDeregister ==
  \E r \in DeregisterRegistries :
    /\ fl = r.fl
    /\ fobj = NewObjs
    /\ hidden = {}
    /\ flags_by_module = r.flags_by_module
    /\ flags_by_module_id = r.flags_by_module_id
    /\ key_flags_by_module = r.key_flags_by_module
    /\ parsed = FALSE
    /\ gnu = FALSE
    /\ files = ParseFiles
    /\ last = NoLast

NextDeregister ==
  /\ last.step < MaxDeregisterOps
  /\ \/ \E name \in DeregisterNames : DelAttr(name)
     \/ \E m \in DeregisterModules, flag \in DeregisterObjs :
          RegisterKeyFlagForModule(m, flag)
     \/ \E flag \in DeregisterObjs : SetItem(FlagDef[flag].name, flag, "m", "id1")

SpecDeregister == InitDeregister /\ [][NextDeregister]_vars

\* ------------------------------------------------- the registry scenarios
\* The flags, names, modules and values the registry operations are given.
\* A flag is registered as DEFINE_* registers it, fv[flag.name] = flag.
RegObjs == {"Fa", "Fa2", "Fa3", "Fc"}
RegNames == {NameA, NameC, NameX}
ModuleNames == {"m"}
ModuleIds == {"id1", "id2"}
SetValues == {VInt(9)}

\* __init__: nothing registered, not parsed, getopt-style scanning.
Init ==
  /\ InitRegistry([n \in {} |-> "none"], NewObjs)
  /\ gnu = FALSE

Next ==
  /\ last.step < MaxOps
  /\ \/ \E flag \in RegObjs, cn \in ModuleNames, cid \in ModuleIds :
          SetItem(FlagDef[flag].name, flag, cn, cid)
     \/ \E name \in RegNames : DelAttr(name)
     \/ \E m \in ModuleNames, flag \in RegObjs : RegisterFlagByModule(m, flag)
     \/ \E id \in ModuleIds, flag \in RegObjs : RegisterFlagByModuleId(id, flag)
     \/ \E name \in RegNames, value \in SetValues : SetAttr(name, value)

Spec == Init /\ [][Next]_vars

\* A program whose modules define the flag a, twice: by two Flag objects that
\* do not allow override, from modules that are, or are not, the same module
\* loaded again.
ReimportObjs == {"Fa", "Fa3"}
ReimportModules == {"m", "m2"}

NextReimport ==
  /\ last.step < MaxModuleOps
  /\ \/ \E flag \in ReimportObjs, cn \in ReimportModules, cid \in ModuleIds :
          SetItem(NameA, flag, cn, cid)
     \/ \E m \in ReimportModules, flag \in ReimportObjs : RegisterFlagByModule(m, flag)
     \/ \E id \in ModuleIds, flag \in ReimportObjs : RegisterFlagByModuleId(id, flag)

SpecReimport == Init /\ [][NextReimport]_vars

\* ================================================================ claims
IsCall == last.op = "Call"

\* The Flag.Parse invocations of the last call that returned, for object o.
OkCalls(o) == {k \in 1..Len(last.calls) : last.calls[k].o = o /\ last.calls[k].ok}

\* q ends with the sequence suffix.
EndsWith(q, suffix) ==
  Len(q) >= Len(suffix) /\ SubSeq(q, Len(q) - Len(suffix) + 1, Len(q)) = suffix

\* The tokens of args the scan left unparsed (positional, or after the stop).
RECURSIVE Unparsed(_, _, _)
Unparsed(args, cls, k) ==
  IF k > Len(args) THEN <<>>
  ELSE (IF cls[k] \in {"positional", "rest"} THEN <<args[k]>> ELSE <<>>)
       \o Unparsed(args, cls, k + 1)

\* Every Flag.Parse of the call returned and no value was missing.
ScanCompleted ==
  /\ \A k \in 1..Len(last.calls) : last.calls[k].ok
  /\ \A k \in 1..Len(last.args) : last.cls[k] /= "missing"

\* ---- C1
\* tok is --<nm>=v for some v; OneTokenValue is that v.
IsOneTokenForm(tok, nm) == StartsWith(tok, DashDash \o nm \o <<"=">>)
OneTokenValue(tok, nm) == SubSeq(tok, Len(nm) + 4, Len(tok))

\* The parse of [prog, tok] handed exactly v to F.Parse, cleared F's
\* using_default_value, left every other Flag object alone and returned [prog].
C1_Routed(F, v) ==
  /\ Len(last.calls) = 1
  /\ last.calls[1].o = F
  /\ last.calls[1].raw = VStr(v)
  /\ ~fobj[F].using_default_value
  /\ \A o \in FlagObjs \ {F} : fobj[o] = last.pre_fobj[o]
  /\ last.err = "ok"
  /\ last.ret = <<last.argv[1]>>

\* C1 as the claim states it: for every registered flag F and every value v,
\* a parse of [prog, --<name of F>=v] routes v to F.Parse, clears
\* using_default_value of F, changes no other flag and returns [prog].
C1_Original ==
  (IsCall /\ Len(last.argv) = 2) =>
    \A n \in DOMAIN last.pre_fl :
      LET F == last.pre_fl[n] IN
      IsOneTokenForm(last.argv[2], FlagDef[F].name) =>
        C1_Routed(F, OneTokenValue(last.argv[2], FlagDef[F].name))

\* C1, amended: the same, for a flag F registered under its long name, which
\* is neither undefok nor flagfile, and a value v that F.Parse accepts and
\* that leaves every validator of the registry satisfied.
C1_Amended ==
  (IsCall /\ Len(last.argv) = 2) =>
    \A n \in DOMAIN last.pre_fl :
      LET F == last.pre_fl[n]
          nm == FlagDef[F].name
          v == OneTokenValue(last.argv[2], nm)
          pv == ParserParse(FlagDef[F].kind, VStr(v))
      IN
      ( /\ IsOneTokenForm(last.argv[2], nm)
        /\ nm \notin {NameUndefok, NameFlagfile}
        /\ nm \in DOMAIN last.pre_fl /\ last.pre_fl[nm] = F
        /\ pv.ok
        /\ AssertAllValidators(last.pre_fl, [last.pre_fobj EXCEPT ![F].value = pv.v]) = "ok" )
      => C1_Routed(F, v)

C1_Witness ==
  /\ IsCall /\ last.argv = <<TokProg, TokA5>>
  /\ C1_Routed("Fa", <<"5">>)
  /\ last.pre_fobj["Fa"].using_default_value
  /\ fobj["Fa"].value = VInt(5)

\* ---- C2
\* The name of a flag token: its leading dashes stripped, up to the first =.
TokenName(tok) ==
  LET t == LStrip(tok, "-")
      e == IndexOf(t, "=")
  IN IF e > 0 THEN SubSeq(t, 1, e - 1) ELSE t

\* Token k of the scanned vector was reached by the scan as a token of its
\* own (not skipped after the stop, not taken as a flag's value).
Reached(k) == last.cls[k] \notin {"rest", "value"}

\* tok is --nm or -nm, with no value.
IsValueless(tok, nm) == tok = DashDash \o nm \/ tok = Dash \o nm

\* X names a registered boolean flag.
IsBooleanName(X) == X \in DOMAIN last.pre_fl /\ FlagDef[last.pre_fl[X]].boolean

\* Flag.Parse(b) was called on o for token k and returned, and o holds b if
\* no later token of the call set it again.
SetsTo(k, o, b) ==
  /\ \E c \in 1..Len(last.calls) :
       /\ last.calls[c].at = k /\ last.calls[c].o = o
       /\ last.calls[c].raw = VBool(b) /\ last.calls[c].ok
  /\ (\A c \in 1..Len(last.calls) : last.calls[c].o = o => last.calls[c].at <= k)
       => fobj[o].value = VBool(b)

\* --X and -X set a registered boolean X to true and leave the next token;
\* --noX and -noX set it to false when noX is not a registered name.
C2_Boolean(k) ==
  \A X \in DOMAIN last.pre_fl :
    FlagDef[last.pre_fl[X]].boolean =>
      /\ IsValueless(last.args[k], X) =>
           /\ SetsTo(k, last.pre_fl[X], TRUE)
           /\ k < Len(last.args) => last.cls[k + 1] /= "value"
      /\ (IsValueless(last.args[k], No \o X) /\ No \o X \notin DOMAIN last.pre_fl) =>
           SetsTo(k, last.pre_fl[X], FALSE)

\* Token k is recorded as an unknown flag.
RecordedUnknown(k) ==
  /\ last.cls[k] = "unknown"
  /\ \E u \in 1..Len(last.unknown_flags) :
       last.unknown_flags[u] = <<TokenName(last.args[k]), last.args[k]>>

\* Token k is a flag token named no<name>, and <name> is no registered
\* boolean flag.
IsNoOfNoBoolean(k) ==
  /\ StartsWith(last.args[k], Dash)
  /\ StartsWith(TokenName(last.args[k]), No)
  /\ ~IsBooleanName(SubSeq(TokenName(last.args[k]), 3, Len(TokenName(last.args[k]))))

\* C2 as the claim states it: for every registered boolean X, --X or -X sets
\* X to true without consuming the next token, --noX or -noX sets X to false
\* when noX is not registered; a token no<name> whose suffix is not a
\* registered boolean flag is recorded as unknown.
C2_Original ==
  (IsCall /\ last.scanned) =>
    \A k \in 1..Len(last.args) :
      Reached(k) =>
        /\ C2_Boolean(k)
        /\ IsNoOfNoBoolean(k) => RecordedUnknown(k)

\* C2, amended: the same, where the last part is about a token no<name> that
\* is not itself a registered name.
C2_Amended ==
  (IsCall /\ last.scanned) =>
    \A k \in 1..Len(last.args) :
      Reached(k) =>
        /\ C2_Boolean(k)
        /\ (IsNoOfNoBoolean(k) /\ TokenName(last.args[k]) \notin DOMAIN last.pre_fl)
             => RecordedUnknown(k)

\* [p, -b, 5, --nob] in GNU mode, nob not registered: b was set to true by
\* -b, 5 was left as a positional argument, --nob set b to false.
C2_Witness ==
  /\ IsCall /\ gnu /\ last.argv = <<TokProg, TokB1, Tok5, TokNoB>>
  /\ NameNoB \notin DOMAIN last.pre_fl
  /\ SetsTo(1, "Fb", TRUE) /\ SetsTo(3, "Fb", FALSE)
  /\ last.ret = <<TokProg, Tok5>>
  /\ fobj["Fb"].value = VBool(FALSE)

\* ---- C3
\* The value of the undefok token at k: what follows its =, or the next token.
UndefokValue(k) ==
  LET t == LStrip(last.args[k], "-")
      e == IndexOf(t, "=")
  IN IF e > 0 THEN SubSeq(t, e + 1, Len(t)) ELSE last.args[k + 1]

\* name is listed in an undefok token of the call, as itself or as no<listed>.
Covered(name) ==
  \E k \in 1..Len(last.args) :
    /\ last.cls[k] = "undefok"
    /\ \E v \in Range(SplitComma(UndefokValue(k))) :
         name = Strip(v) \/ name = No \o Strip(v)

Uncovered == {u \in 1..Len(last.unknown_flags) : ~Covered(last.unknown_flags[u][1])}

\* No token named undefok was handed to a flag, and the Flag object
\* registered as undefok, if any, is as before.
UndefokNotAFlag ==
  /\ \A c \in 1..Len(last.calls) : TokenName(last.args[last.calls[c].at]) /= NameUndefok
  /\ fobj["Fundefok"] = last.pre_fobj["Fundefok"]

\* The unknown tokens are not returned: the parse returns the program name
\* and the tokens left unparsed.
UnknownDropped ==
  /\ last.err = "ok"
  /\ last.ret = <<last.argv[1]>> \o Unparsed(last.args, last.cls, 1)

\* C3 as the claim states it: a parse whose scanned arguments hold a flag
\* token with an unregistered name raises UnrecognizedFlagError unless the
\* name is listed in an undefok token of the call; when it is, the token is
\* dropped, the undefok token is not read as a flag and the parse succeeds.
C3_Original ==
  (IsCall /\ last.scanned /\ last.unknown_flags /= <<>>) =>
    /\ UndefokNotAFlag
    /\ IF Uncovered /= {} THEN last.err = "UnrecognizedFlagError" ELSE UnknownDropped

\* C3, amended: the same for a parse whose scan raises nothing itself (no
\* missing value, no error of a flag's Parse): UnrecognizedFlagError names the
\* first unknown flag not listed; when all are listed the parse succeeds if
\* the validators do.
C3_Amended ==
  (IsCall /\ last.scanned /\ last.unknown_flags /= <<>>) =>
    /\ UndefokNotAFlag
    /\ ScanCompleted =>
         IF Uncovered /= {}
         THEN /\ last.err = "UnrecognizedFlagError"
              /\ last.errname =
                   last.unknown_flags[CHOOSE u \in Uncovered : \A w \in Uncovered : u <= w][1]
         ELSE AssertAllValidators(fl, fobj) = "ok" => UnknownDropped

\* [p, --nozz, --zz=5, --undefok=y, zz]: both unknown tokens are dropped.
C3_Witness ==
  /\ IsCall /\ last.argv = <<TokProg, TokNoZZ, TokZZ5, TokUndefokYZ>>
  /\ Len(last.unknown_flags) = 2
  /\ last.err = "ok" /\ last.ret = <<TokProg>>
  /\ fobj = last.pre_fobj

\* ---- C4
\* C4: the scan is not transactional.  When a parse raises, a flag whose
\* Parse returned during the call holds the value parsed from its last
\* consumed token, is no longer at its default, and has been counted present
\* once per token; a flag with no such token is exactly as before the call.
C4_NotTransactional ==
  (IsCall /\ last.err /= "ok") =>
    \A o \in FlagObjs :
      LET cs == OkCalls(o) IN
      IF cs = {} THEN fobj[o] = last.pre_fobj[o]
      ELSE LET c == last.calls[CHOOSE k \in cs : \A j \in cs : j <= k] IN
           /\ fobj[o].value = ParserParse(FlagDef[o].kind, c.raw).v
           /\ ~fobj[o].using_default_value
           /\ fobj[o].present = last.pre_fobj[o].present + Cardinality(cs)

\* A missing-value error after --a=5 was consumed: a is 5.
C4_Witness ==
  /\ IsCall /\ last.err = "FlagsError"
  /\ last.args = <<TokA5, TokA>>
  /\ last.pre_fobj["Fa"].value = VInt(0)
  /\ fobj["Fa"].value = VInt(5)

\* ---- C8
\* Token k of the scanned vector is a non-flag that no flag took as its value.
IsPositionalToken(k) == ~StartsWith(last.args[k], Dash) /\ last.cls[k] /= "value"

\* C8: GNU mode off, the scan stops at the first non-flag token that is not
\* the value of a preceding flag: nothing from it on is scanned or parsed and
\* a successful parse returns it and everything after it verbatim.  GNU mode
\* on, such a token is recorded as positional and the scan goes on: a token is
\* left unscanned only after a bare -- terminator (or an error).
C8_StopAtPositional ==
  (IsCall /\ last.scanned) =>
    /\ ~gnu =>
         \A k \in 1..Len(last.args) :
           IsPositionalToken(k) =>
             /\ \A j \in (k + 1)..Len(last.args) : last.cls[j] = "rest"
             /\ \A c \in 1..Len(last.calls) : last.calls[c].at < k
             /\ last.err = "ok" => EndsWith(last.ret, SubSeq(last.args, k, Len(last.args)))
    /\ (gnu /\ ScanCompleted) =>
         \A k \in 1..Len(last.args) :
           /\ IsPositionalToken(k) =>
                \/ last.cls[k] = "positional"
                \/ \E t \in 1..(k - 1) : last.cls[t] = "terminator"
           /\ last.cls[k] = "rest" => \E t \in 1..(k - 1) : last.cls[t] = "terminator"

\* GNU mode off: [p, 5, --b] comes back whole and b is untouched.
C8_Witness ==
  /\ IsCall /\ ~gnu /\ last.argv = <<TokProg, Tok5, TokB>>
  /\ last.ret = <<TokProg, Tok5, TokB>>
  /\ fobj = last.pre_fobj

\* ---- C9
\* The index in argv of the first bare -- after the program name; 0 if none.
FirstDashDash(argv) ==
  IF \E k \in 2..Len(argv) : argv[k] = DashDash
  THEN CHOOSE k \in 2..Len(argv) : argv[k] = DashDash /\ \A j \in 2..(k - 1) : argv[j] /= DashDash
  ELSE 0

\* The tokens after index k of argv are in the scanned vector verbatim, right
\* behind the -- (none was expanded); no Flag.Parse was made for a token
\* behind the --; a successful parse returns them, in order, at the end.
C9_AfterDashDash(k) ==
  LET S == SubSeq(last.argv, k + 1, Len(last.argv))
      dd == Len(last.args) - Len(S)
  IN
  /\ dd >= 1
  /\ last.args[dd] = DashDash
  /\ SubSeq(last.args, dd + 1, Len(last.args)) = S
  /\ \A c \in 1..Len(last.calls) : last.calls[c].at < dd
  /\ last.err = "ok" => EndsWith(last.ret, S)

\* C9 as the claim states it: every token that follows a bare -- token of the
\* argument vector is returned verbatim, changes no flag, is not expanded.
C9_Original ==
  (IsCall /\ last.scanned /\ FirstDashDash(last.argv) /= 0) =>
    C9_AfterDashDash(FirstDashDash(last.argv))

\* C9, amended: the same for a bare -- that is not taken as the value of the
\* flag (or undefok) token before it.
C9_Amended ==
  (IsCall /\ last.scanned /\ FirstDashDash(last.argv) /= 0) =>
    LET k == FirstDashDash(last.argv)
        dd == Len(last.args) - (Len(last.argv) - k)
    IN (dd >= 1 /\ last.cls[dd] /= "value") => C9_AfterDashDash(k)

C9_Witness ==
  /\ IsCall /\ last.argv = <<TokProg, TokB, DashDash, TokFlagfileF>>
  /\ last.ret = <<TokProg, TokFlagfileF>>
  /\ fobj["Fa"] = last.pre_fobj["Fa"]
  /\ fobj["Fb"].value = VBool(TRUE)

\* ---- C10
\* C10: the first element of a non-empty argv is not scanned (a parse of the
\* program name alone calls no Flag.Parse and changes no flag, whatever the
\* name looks like; without flagfile directives the scanned vector is argv
\* without its first element), and a successful parse returns the program
\* name followed by the unparsed tokens in their order in the scanned vector.
C10_ProgramName ==
  (IsCall /\ last.argv /= <<>>) =>
    /\ Len(last.argv) = 1 => (last.calls = <<>> /\ fobj = last.pre_fobj)
    /\ (last.scanned /\ \A k \in 2..Len(last.argv) : ~IsFlagFileDirective(last.argv[k]))
         => last.args = Tail(last.argv)
    /\ last.err = "ok" =>
         /\ last.ret[1] = last.argv[1]
         /\ Tail(last.ret) = Unparsed(last.args, last.cls, 1)

\* [--a=5, zz, --b, 5] in GNU mode: a keeps its default, b is set,
\* [--a=5, zz, 5] comes back.
C10_Witness ==
  /\ IsCall /\ gnu /\ last.argv = <<TokA5, NameZZ, TokB, Tok5>>
  /\ last.ret = <<TokA5, NameZZ, Tok5>>
  /\ fobj["Fa"] = last.pre_fobj["Fa"]
  /\ fobj["Fb"].value = VBool(TRUE)

\* ---- C5
IsSetItem == last.op = "SetItem"

\* The last operation registered a flag under a name that was registered,
\* and neither the incoming nor the existing flag allows override.
C5_Collision ==
  /\ IsSetItem
  /\ last.name \in DOMAIN last.pre_fl
  /\ ~FlagDef[last.obj].allow_override
  /\ ~FlagDef[last.pre_fl[last.name]].allow_override

\* C5 as the claim states it: such a registration always raises
\* DuplicateFlagError.
C5_Original == C5_Collision => last.err = "DuplicateFlagError"

\* C5, amended: such a registration raises DuplicateFlagError and changes
\* nothing, unless the module recorded as defining the name has the calling
\* module's name and another id (the module imported again): then it raises
\* nothing and changes nothing.
C5_Amended ==
  C5_Collision =>
    /\ fl = last.pre_fl
    /\ last.err = IF /\ last.found_module = last.caller_name
                     /\ last.caller_id /= last.found_id
                  THEN "ok" ELSE "DuplicateFlagError"

\* The same module (name m, id id1) defines a second flag a: an error.
C5_Witness ==
  /\ C5_Collision
  /\ last.name = NameA /\ last.obj = "Fa3" /\ last.pre_fl[NameA] = "Fa"
  /\ last.found_module = "m" /\ last.caller_name = "m"
  /\ last.found_id = "id1" /\ last.caller_id = "id1"
  /\ last.err = "DuplicateFlagError"

\* ---- C6
\* The last operation registered a flag under its long name, the name was
\* registered, and the incoming or the existing flag allows override.
C6_Override ==
  /\ IsSetItem
  /\ last.name = FlagDef[last.obj].name
  /\ last.name \in DOMAIN last.pre_fl
  /\ FlagDef[last.obj].allow_override \/ FlagDef[last.pre_fl[last.name]].allow_override

\* No error; the name maps to the incoming flag, unless the existing flag is
\* off its default and the incoming one at its default: then the name and the
\* existing flag's value stay.
C6_Replaced ==
  LET existing == last.pre_fl[last.name] IN
  /\ last.err = "ok"
  /\ IF ~last.pre_fobj[existing].using_default_value
        /\ last.pre_fobj[last.obj].using_default_value
     THEN /\ fl[last.name] = existing
          /\ fobj[existing].value = last.pre_fobj[existing].value
     ELSE fl[last.name] = last.obj

\* C6 as the claim states it.
C6_Original == C6_Override => C6_Replaced

\* The incoming flag's short name is registered, and neither the incoming
\* flag nor the flag under that short name allows override.
C6_ShortNameCollision ==
  /\ FlagDef[last.obj].has_short
  /\ FlagDef[last.obj].short_name \in DOMAIN last.pre_fl
  /\ ~FlagDef[last.obj].allow_override
  /\ ~FlagDef[last.pre_fl[FlagDef[last.obj].short_name]].allow_override

\* C6, amended: the same, when the incoming flag's short name does not
\* collide without override permission (that raises DuplicateFlagError).
C6_Amended ==
  (C6_Override /\ ~C6_ShortNameCollision) => C6_Replaced

\* Fa2 (override allowed) was set to 9; Fa, at its default, is registered
\* under the same name: the name still maps to Fa2, whose value is 9.
C6_Witness ==
  /\ C6_Override
  /\ last.name = NameA /\ last.obj = "Fa" /\ last.pre_fl[NameA] = "Fa2"
  /\ last.err = "ok"
  /\ fl[NameA] = "Fa2"
  /\ fobj["Fa2"].value = VInt(9)

\* ---- C7
\* Lookup of the last operation's name returns the flag just registered.
C7_LookupReturns ==
  GetFlag(fl, last.name) = [err |-> "ok", res |-> last.obj]

\* After a deletion, lookup of the name fails: GetFlag raises
\* UnrecognizedFlagError, attribute access raises AttributeError.
C7_Deregistered ==
  (last.op = "DelAttr" /\ last.err = "ok") =>
    /\ GetFlag(fl, last.name).err = "UnrecognizedFlagError"
    /\ GetAttrFails(fl, hidden, last.name)

\* C7 as the claim states it: whenever a registration of f under n completes
\* without error, lookup of n returns f; after a deletion of n lookup fails.
C7_Original ==
  /\ (IsSetItem /\ last.err = "ok") => C7_LookupReturns
  /\ C7_Deregistered

\* The registration returned without registering: the re-import of C5.
C7_Skipped ==
  /\ C5_Collision
  /\ last.found_module = last.caller_name
  /\ last.caller_id /= last.found_id

\* The name keeps the existing flag: it is off its default, the incoming
\* flag at its default (C6).
C7_Kept ==
  /\ last.name \in DOMAIN last.pre_fl
  /\ ~last.pre_fobj[last.pre_fl[last.name]].using_default_value
  /\ last.pre_fobj[last.obj].using_default_value

\* C7, amended: the same, except that lookup of n need not return f when the
\* registration was skipped as a re-import or when n already maps to a flag
\* with a non-default value while f is at its default.
C7_Amended ==
  /\ (IsSetItem /\ last.err = "ok" /\ ~C7_Skipped /\ ~C7_Kept) => C7_LookupReturns
  /\ C7_Deregistered

\* Fa was registered under a and a was then deleted: lookup of a fails.
C7_Witness ==
  /\ last.op = "DelAttr" /\ last.err = "ok" /\ last.step = 2
  /\ last.name = NameA /\ last.pre_fl[NameA] = "Fa"
  /\ NameA \notin DOMAIN fl
  /\ GetFlag(fl, NameA).err = "UnrecognizedFlagError"

\* ---- C11
IsReadFlags == last.op = "ReadFlagsFromFiles"

\* s without the whitespace at its two ends.
Trimmed(s) ==
  LET inner == {k \in 1..Len(s) : s[k] \notin {" ", "\t", "\n"}} IN
  IF inner = {} THEN <<>>
  ELSE SubSeq(s, CHOOSE k \in inner : \A j \in inner : k <= j,
                 CHOOSE k \in inner : \A j \in inner : k >= j)

\* A line that is dropped: blank, or beginning with # or //.
IsDropped(line) ==
  \/ Trimmed(line) = <<>>
  \/ line[1] = "#"
  \/ Len(line) >= 2 /\ line[1] = "/" /\ line[2] = "/"

\* A token or line of the form --flagfile=<name> or -flagfile=<name>, and the
\* file it names.
NamesAFile(s) ==
  \E d \in {1, 2} :
    /\ Len(s) > d + 9
    /\ SubSeq(s, 1, d + 9) = [k \in 1..d |-> "-"] \o NameFlagfile \o <<"=">>

NamedFile(s) == Trimmed(SubSeq(s, IndexOf(s, "=") + 1, Len(s)))

\* Every directive line of every file names a file that exists.
IncludesExist ==
  \A n \in DOMAIN files : \A k \in 1..Len(files[n]) :
    NamesAFile(files[n][k]) => NamedFile(files[n][k]) \in DOMAIN files

\* The lines the file named n stands for while the files of inflight are
\* being expanded: line by line and in order, nothing for a dropped line, the
\* lines of the named file for a directive line, else the trimmed line.
RECURSIVE KeptLines(_, _)
RECURSIVE KeptFrom(_, _, _)
KeptFrom(n, k, inflight) ==
  IF k > Len(files[n]) THEN <<>>
  ELSE (IF IsDropped(files[n][k]) THEN <<>>
        ELSE IF NamesAFile(files[n][k])
        THEN KeptLines(NamedFile(files[n][k]), inflight \cup {n})
        ELSE <<Trimmed(files[n][k])>>)
       \o KeptFrom(n, k + 1, inflight)

KeptLines(n, inflight) == IF n \in inflight THEN <<>> ELSE KeptFrom(n, 1, inflight)

\* What an argument vector of flag tokens and directives expands to: each
\* directive (one token, or --flagfile and the file's name) replaced by the
\* lines of its file.
RECURSIVE ExpandedArgv(_)
ExpandedArgv(argv) ==
  IF argv = <<>> THEN <<>>
  ELSE IF NamesAFile(Head(argv))
  THEN KeptLines(NamedFile(Head(argv)), {}) \o ExpandedArgv(Tail(argv))
  ELSE IF Head(argv) \in {Flagfile2, Flagfile1} /\ Len(argv) >= 2
  THEN KeptLines(argv[2], {}) \o ExpandedArgv(Tail(Tail(argv)))
  ELSE <<Head(argv)>> \o ExpandedArgv(Tail(argv))

RECURSIVE WithoutIncludesOf(_, _)
WithoutIncludesOf(q, n) ==
  IF q = <<>> THEN <<>>
  ELSE (IF NamesAFile(Head(q)) /\ NamedFile(Head(q)) = n THEN <<>> ELSE <<Head(q)>>)
       \o WithoutIncludesOf(Tail(q), n)

\* The file system in which no file includes n.
NeverIncluding(n) == [m \in DOMAIN files |-> WithoutIncludesOf(files[m], n)]

\* The argument vector is one directive, naming a file that exists.
IsOneDirective ==
  /\ IsReadFlags /\ Len(last.argv) = 1 /\ NamesAFile(last.argv[1])
  /\ NamedFile(last.argv[1]) \in DOMAIN files

\* C12: whatever the files include, themselves too, the expansion of a file
\* ends without error; the file is expanded (each of its own lines that is
\* neither dropped nor a directive is among the result), and its inclusions
\* met while it is being expanded contribute no lines: the result is what
\* it would be if no file included it.
C12_CyclesEmpty ==
  (IsOneDirective /\ IncludesExist) =>
    LET n == NamedFile(last.argv[1]) IN
    /\ last.err = "ok"
    /\ \A k \in 1..Len(files[n]) :
         (~IsDropped(files[n][k]) /\ ~NamesAFile(files[n][k]))
           => Trimmed(files[n][k]) \in Range(last.ret)
    /\ last.ret = GetFlagFileLines(NeverIncluding(n), n, <<>>).lines

\* f includes itself, then g, which includes f: g's flag, then f's.
C12_Witness ==
  /\ IsOneDirective /\ last.argv = <<TokFlagfileF>>
  /\ files[<<"f">>] = <<LineFlagfileF, LineFlagfileG, LineA7>>
  /\ Len(files[<<"g">>]) = 3
  /\ last.err = "ok"
  /\ last.ret = <<TokA5, DashDash \o NameA \o <<"=", "7">>>>

\* ---- C13
\* The last operation read a flag registered and not hidden.
IsReadOfFlag ==
  /\ last.op = "GetAttr"
  /\ last.name \in DOMAIN last.pre_fl
  /\ last.name \notin hidden

\* Nothing of the registry was changed by the last operation.
RegistryAsBefore ==
  /\ fl = last.pre_fl /\ fobj = last.pre_fobj /\ parsed = last.pre_parsed

\* C13: an attribute-style read of a registered, non-hidden flag, before any
\* parse has completed and before the flag was explicitly set, returns the
\* flag's default (permissive mode) or raises the access-before-parse error
\* (strict mode), and changes nothing of the registry.
C13_ReadBeforeParse ==
  (/\ IsReadOfFlag
   /\ ~last.pre_parsed
   /\ last.pre_fobj[last.obj].using_default_value)
  => /\ IF last.allow_unparsed
        THEN last.err = "ok" /\ last.value = last.pre_fobj[last.obj].default
        ELSE last.err = "UnparsedFlagAccessError"
     /\ RegistryAsBefore

\* SetDefault(a, 9), then a strict read of a raises and a permissive one
\* would return 9.
C13_Witness ==
  /\ IsReadOfFlag /\ last.name = NameA /\ ~last.pre_parsed
  /\ last.pre_fobj["Fa"].using_default_value
  /\ last.pre_fobj["Fa"].default = VInt(9)
  /\ ~last.allow_unparsed
  /\ last.err = "UnparsedFlagAccessError"

\* ---- C14
\* The read returned the flag's current value and met no access before the
\* parse.
ReadsCurrentValue ==
  /\ last.err = "ok"
  /\ last.value = fobj[last.obj].value
  /\ ~last.unparsed_access

\* C14 as the claim states it: the read returns the current value, without
\* the access-before-parse condition, whenever the registry is marked parsed
\* or the flag was explicitly set, by an attribute-style set before any parse
\* too.
C14_Original ==
  (IsReadOfFlag /\ (last.pre_parsed \/ ~last.pre_fobj[last.obj].using_default_value))
  => ReadsCurrentValue

\* C14, amended: whenever the registry is marked parsed or the flag was set
\* by a flag token of a parse (it is present).
C14_Amended ==
  (IsReadOfFlag /\ (last.pre_parsed \/ last.pre_fobj[last.obj].present /= 0))
  => ReadsCurrentValue

\* A parse of [p, --a=7, --a] set a to 7 and raised for the missing value:
\* the registry is not marked parsed, and a strict read of a returns 7.
C14_Witness ==
  /\ IsReadOfFlag /\ last.name = NameA
  /\ ~last.pre_parsed /\ ~last.allow_unparsed
  /\ last.pre_fobj["Fa"].present = 1
  /\ ReadsCurrentValue /\ last.value = VInt(7)

\* ---- C15
\* The last operation was FLAGS.<name> = value on a registered flag.
IsSetOfFlag == last.op = "SetAttr" /\ last.name \in DOMAIN last.pre_fl

\* The set stored the value, cleared using_default_value, changed no other
\* flag, and raised IllegalFlagValue exactly if a validator attached to the
\* flag fails on the values now held.
C15_Stored ==
  LET o == last.pre_fl[last.name] IN
  /\ fobj[o].value = last.value
  /\ ~fobj[o].using_default_value
  /\ \A other \in FlagObjs \ {o} : fobj[other] = last.pre_fobj[other]
  /\ IF \E v \in fobj[o].validators :
          ~Checker(v, fobj[fl[ValidatorDef[v].flag_name]].value)
     THEN last.err = "IllegalFlagValue"
     ELSE last.err = "ok"

\* C15 as the claim states it: a set of flag n to v stores v, clears
\* using_default_value and asserts exactly the validators attached to n.
C15_Original == IsSetOfFlag => C15_Stored

\* C15, amended: the same, for a flag n that is not hidden.
C15_Amended == (IsSetOfFlag /\ last.name \notin hidden) => C15_Stored

\* b holds False, which its validator rejects; a = 9 is stored without error.
C15_Witness ==
  /\ IsSetOfFlag /\ last.name = NameA /\ last.value = VInt(9)
  /\ last.err = "ok"
  /\ fobj["Fb"].value = VBool(FALSE)
  /\ "Vb" \in fobj["Fb"].validators
  /\ fobj["Fa"].value = VInt(9)

\* ---- C16
\* The validators attached to registered flags that the values now held do
\* not satisfy.
FailingValidators ==
  {v \in UNION {fobj[fl[n]].validators : n \in DOMAIN fl} :
     ~Checker(v, fobj[fl[ValidatorDef[v].flag_name]].value)}

\* The call got as far as the assertion of the validators: the argument
\* vector was empty, or the scan raised nothing and every unknown flag was
\* listed in undefok.
ReachedValidators ==
  \/ last.argv = <<>>
  \/ /\ last.scanned /\ ScanCompleted
     /\ \A u \in 1..Len(last.unknown_flags) : last.unknown_flags[u][1] \in last.undefok

\* C16 as the claim states it: a parse returns only if every validator of
\* every registered flag is satisfied by the values the scan left; if one
\* fails the call raises IllegalFlagValue; when the call returns the registry
\* is marked parsed.
C16_Original ==
  IsCall =>
    /\ last.err = "ok" => (FailingValidators = {} /\ parsed)
    /\ FailingValidators /= {} => last.err = "IllegalFlagValue"

\* C16, amended: if a validator fails and the call gets as far as asserting
\* the validators, it raises IllegalFlagValue.
C16_Amended ==
  IsCall =>
    /\ last.err = "ok" => (FailingValidators = {} /\ parsed)
    /\ (FailingValidators /= {} /\ ReachedValidators) => last.err = "IllegalFlagValue"

\* b holds False, against its validator; the parse of [p, --a=7] sets a and
\* raises IllegalFlagValue.
C16_Witness ==
  /\ IsCall /\ last.argv = <<TokProg, TokA7>>
  /\ fobj["Fa"].value = VInt(7)
  /\ FailingValidators = {"Vb"}
  /\ last.err = "IllegalFlagValue"

\* ---- C17
\* The registered Flag objects whose value the last operation changed and
\* that have a validator attached which the resulting values do not satisfy.
ChangedAgainstValidators ==
  {o \in {fl[n] : n \in DOMAIN fl} :
     /\ fobj[o].value /= last.pre_fobj[o].value
     /\ \E v \in fobj[o].validators :
          ~Checker(v, fobj[fl[ValidatorDef[v].flag_name]].value)}

\* C17 as the claim states it: an attribute-style set, SetDefault, top-level
\* parse or Reset that changes the value of a flag with validators asserts
\* them on the resulting state before it ends: if one fails, the operation
\* raises IllegalFlagValue.
C17_Original ==
  (last.op \in {"SetAttr", "SetDefault", "Call", "Reset"} /\ ChangedAgainstValidators /= {})
  => last.err = "IllegalFlagValue"

\* C17, amended: an attribute-style set, SetDefault, or a top-level parse
\* that gets as far as asserting the validators; Reset asserts none.
C17_Amended ==
  (/\ \/ last.op \in {"SetAttr", "SetDefault"}
      \/ IsCall /\ ReachedValidators
   /\ ChangedAgainstValidators /= {})
  => last.err = "IllegalFlagValue"

\* SetDefault(a, 5): a is 5, its validator fails, IllegalFlagValue is raised.
C17_Witness ==
  /\ last.op = "SetDefault" /\ last.name = NameA
  /\ fobj["Fa"].value = VInt(5) /\ last.pre_fobj["Fa"].value /= VInt(5)
  /\ ChangedAgainstValidators = {"Fa"}
  /\ last.err = "IllegalFlagValue"

\* ---- C18
\* The last operation turned parsed from false to true.
ParsedSet == ~last.pre_parsed /\ parsed

\* The last operation turned parsed from true to false.
ParsedCleared == last.pre_parsed /\ ~parsed

\* Every registered flag is at its default.
AllAtDefault ==
  \A n \in DOMAIN fl :
    /\ fobj[fl[n]].value = fobj[fl[n]].default
    /\ fobj[fl[n]].using_default_value
    /\ fobj[fl[n]].present = 0

\* parsed goes from true to false only through Reset, which in the same step
\* reverts every flag to its default.
C18_OnlyReset == ParsedCleared => (last.op = "Reset" /\ AllAtDefault)

\* C18 as the claim states it: MarkAsParsed aside, parsed goes from false to
\* true only when a top-level parse returns, a parse that raises leaves parsed
\* as it was, and parsed goes from true to false only through Reset, which
\* reverts every flag to its default.
C18_Original ==
  /\ (ParsedSet /\ last.op /= "MarkAsParsed") => (IsCall /\ last.err = "ok")
  /\ (IsCall /\ last.err /= "ok") => parsed = last.pre_parsed
  /\ C18_OnlyReset

\* C18, amended: MarkAsParsed aside, parsed goes from false to true only in a
\* top-level parse whose scan and unknown-flag check raise nothing, and every
\* such parse leaves parsed true, also when a validator then raises
\* IllegalFlagValue; a parse that raises earlier leaves parsed as it was; and
\* parsed goes from true to false only through Reset, which reverts every
\* flag to its default.
C18_Amended ==
  /\ (ParsedSet /\ last.op /= "MarkAsParsed") => (IsCall /\ ReachedValidators)
  /\ (IsCall /\ ReachedValidators) => parsed
  /\ (IsCall /\ ~ReachedValidators) => (last.err /= "ok" /\ parsed = last.pre_parsed)
  /\ C18_OnlyReset

\* A parse of an unparsed registry that raises IllegalFlagValue from a
\* validator and has marked the registry parsed.
C18_Witness ==
  /\ IsCall /\ ReachedValidators /\ last.err = "IllegalFlagValue" /\ ParsedSet

\* A parse of an unparsed registry that raises for an unknown flag and
\* leaves parsed false.
C18_WitnessUnknown ==
  /\ IsCall /\ ~ReachedValidators /\ ~last.pre_parsed /\ ~parsed
  /\ last.err = "UnrecognizedFlagError"

\* A Reset of a parsed registry whose flag a had been given a value.
C18_WitnessReset ==
  /\ last.op = "Reset" /\ ParsedCleared
  /\ last.pre_fobj["Fa"].value /= fobj["Fa"].value

\* ---- C19
\* The last operation was del FLAGS.<name>.
IsDelAttr == last.op = "DelAttr"

\* The Flag object o is the value of its long name or of its short name in
\* the flag map.
ReachableByItsNames(o) ==
  \E n \in {FlagDef[o].name} \cup (IF FlagDef[o].has_short THEN {FlagDef[o].short_name} ELSE {}) :
    n \in DOMAIN fl /\ fl[n] = o

\* The module index by_module with every occurrence of o taken out.
Purged(by_module, o) ==
  [m \in DOMAIN by_module |-> SelectSeq(by_module[m], LAMBDA x : x /= o)]

\* The three module indices are as the operation found them.
IndicesAsBefore ==
  /\ flags_by_module = last.pre_flags_by_module
  /\ flags_by_module_id = last.pre_flags_by_module_id
  /\ key_flags_by_module = last.pre_key_flags_by_module

\* C19: del FLAGS.<name> of a present key removes that key and leaves every
\* other key of the flag map as it was; the Flag object is taken out of the
\* three module indices if and only if it is then the value of neither its
\* long name nor its short name; del of an absent name raises AttributeError
\* and changes nothing.
C19_Deregister ==
  IsDelAttr =>
    IF last.name \in DOMAIN last.pre_fl
    THEN /\ last.err = "ok"
         /\ DOMAIN fl = DOMAIN last.pre_fl \ {last.name}
         /\ \A n \in DOMAIN fl : fl[n] = last.pre_fl[n]
         /\ IF ReachableByItsNames(last.pre_fl[last.name])
            THEN IndicesAsBefore
            ELSE /\ flags_by_module = Purged(last.pre_flags_by_module, last.pre_fl[last.name])
                 /\ flags_by_module_id = Purged(last.pre_flags_by_module_id, last.pre_fl[last.name])
                 /\ key_flags_by_module = Purged(last.pre_key_flags_by_module, last.pre_fl[last.name])
    ELSE /\ last.err = "AttributeError"
         /\ fl = last.pre_fl /\ fobj = last.pre_fobj /\ IndicesAsBefore

\* Some list of the module index by_module holds o.
Indexed(by_module, o) ==
  \E m \in DOMAIN by_module : \E k \in 1..Len(by_module[m]) : by_module[m][k] = o

\* del FLAGS.x after del FLAGS.a: the flag a, listed in the three indices, is
\* no longer reachable and leaves them, while b stays registered and listed.
C19_Witness ==
  /\ IsDelAttr /\ last.name = NameX /\ last.err = "ok"
  /\ last.pre_fl[NameX] = "Fa" /\ ~ReachableByItsNames("Fa")
  /\ Indexed(last.pre_flags_by_module, "Fa")
  /\ Indexed(last.pre_flags_by_module_id, "Fa")
  /\ Indexed(last.pre_key_flags_by_module, "Fa")
  /\ ~Indexed(flags_by_module, "Fa")
  /\ NameB \in DOMAIN fl /\ Indexed(flags_by_module, "Fb")

\* del FLAGS.a while x still maps to the flag: the indices keep it.
C19_WitnessKept ==
  /\ IsDelAttr /\ last.name = NameA /\ last.err = "ok"
  /\ last.pre_fl[NameA] = "Fa" /\ ReachableByItsNames("Fa")
  /\ Indexed(flags_by_module, "Fa")

\* ---- C20
\* The last operation computed the shortest unique prefixes of the flag map.
IsPrefixes == last.op = "ShortestUniquePrefixes"

\* The set of flag names: the keys of the flag map, with no<name> for each
\* key of a boolean flag.
PrefixNames ==
  DOMAIN fl \cup {<<"n", "o">> \o n : n \in {k \in DOMAIN fl : FlagDef[fl[k]].boolean}}

\* Some other name of the set begins with p.
PrefixOfAnother(n, p) == \E m \in PrefixNames \ {n} : StartsWith(m, p)

\* What C20 says of the name n and the prefix p it is mapped to: n itself
\* when n is a prefix of another name, otherwise the shortest (non-empty)
\* prefix of n that is a prefix of no other name.
ShortestUnique(n, p) ==
  /\ p /= <<>> /\ StartsWith(n, p)
  /\ IF PrefixOfAnother(n, n) THEN p = n
     ELSE /\ ~PrefixOfAnother(n, p)
          /\ \A k \in 1..(Len(p) - 1) : PrefixOfAnother(n, SubSeq(n, 1, k))

\* The name n is both a key of the flag map and no<key> of a boolean flag:
\* sorted_flags lists it twice.
ListedTwice(n) ==
  /\ n \in DOMAIN fl
  /\ \E k \in DOMAIN fl : FlagDef[fl[k]].boolean /\ n = <<"n", "o">> \o k

\* C20 as the claim states it: ShortestUniquePrefixes maps every name of
\* the set to a prefix of it that is a prefix of no other name and is the
\* shortest such, and a name that is a prefix of another name to itself.
C20_Original ==
  IsPrefixes =>
    /\ DOMAIN last.shortest_matches = PrefixNames
    /\ \A n \in PrefixNames : ShortestUnique(n, last.shortest_matches[n])

\* C20 as the code has it: the same for every name listed once; a name
\* listed twice (a flag called no<name> beside the boolean flag <name>) is
\* mapped to itself.
C20_Code ==
  IsPrefixes =>
    /\ DOMAIN last.shortest_matches = PrefixNames
    /\ \A n \in PrefixNames :
         IF ListedTwice(n) THEN last.shortest_matches[n] = n
         ELSE ShortestUnique(n, last.shortest_matches[n])

\* The prefixes of a, x, ab and noa: a is a prefix of ab and is mapped to
\* itself, ab needs two characters, noa and x one.
C20_Witness ==
  /\ IsPrefixes
  /\ PrefixNames = {NameA, NameX, NameAB, NameNoA}
  /\ last.shortest_matches[NameA] = NameA
  /\ last.shortest_matches[NameAB] = NameAB
  /\ last.shortest_matches[NameNoA] = <<"n">>
  /\ last.shortest_matches[NameX] = <<"x">>

\* The prefixes of b, nob (of the boolean b) and the flag nob: nob is mapped
\* to itself although n is a prefix of no other name.
C20_WitnessTwice ==
  /\ IsPrefixes
  /\ PrefixNames = {NameB, NameNoB}
  /\ ListedTwice(NameNoB)
  /\ last.shortest_matches[NameNoB] = NameNoB
  /\ last.shortest_matches[NameB] = <<"b">>

\* ---- C21
\* The last operation was FlagsIntoString().
IsFlagsIntoString == last.op = "FlagsIntoString"

\* The registered Flag objects.
Registered == {fl[n] : n \in DOMAIN fl}

\* The number of lines FlagsIntoString rendered for the Flag object o.
LinesFor(o) == Cardinality({k \in 1..Len(last.serialized) : last.serialized[k] = o})

\* The output is the rendered lines, each ended by a newline.
OutIsLines == last.out = Joined(fobj, last.serialized)

\* C21 as the claim states it: every registered flag whose value is not
\* None is rendered as exactly one line, also when it is registered under a
\* long and a short name, and a flag whose value is None as no line.
C21_Original ==
  IsFlagsIntoString =>
    /\ OutIsLines
    /\ \A o \in Registered :
         LinesFor(o) = IF fobj[o].value.t /= "None" THEN 1 ELSE 0

\* C21 as the code has it: a flag whose value is not None is rendered as
\* one line for every key of the flag map that maps to it (two when it is
\* registered under a long and a short name), a flag whose value is None as
\* no line.
C21_Code ==
  IsFlagsIntoString =>
    /\ OutIsLines
    /\ \A o \in Registered :
         LinesFor(o) = IF fobj[o].value.t /= "None"
                       THEN Cardinality({n \in DOMAIN fl : fl[n] = o}) ELSE 0

\* b was set and noa was not: one line for b, none for noa.
C21_Witness ==
  /\ IsFlagsIntoString
  /\ fobj["Fb"].value = VBool(TRUE) /\ LinesFor("Fb") = 1
  /\ fobj["Fnoa"].value = VNone /\ LinesFor("Fnoa") = 0

\* a, registered as a and as x, is rendered as two lines.
C21_WitnessTwice ==
  /\ IsFlagsIntoString
  /\ fobj["Fa"].value = VInt(5) /\ LinesFor("Fa") = 2

\* ---- C22
\* The last operation serialized the flags, reset them to their defaults and
\* parsed the lines.
IsSerializeAndParse == last.op = "SerializeAndParse"

\* The parse reproduced the value of every flag whose value was not None,
\* and serializing again gives the same text.
RoundTrips ==
  /\ last.err = "ok"
  /\ \A o \in Registered :
       last.pre_fobj[o].value.t /= "None" => fobj[o].value = last.pre_fobj[o].value
  /\ last.out_again = last.out

LineBreakInValue ==
  \E o \in Registered : \E k \in 1..Len(last.pre_fobj[o].value.s) :
    last.pre_fobj[o].value.s[k] = "\n"

\* Some flag's value is None while its default is not.
NoneOverDefault ==
  \E o \in Registered :
    last.pre_fobj[o].value.t = "None" /\ last.pre_fobj[o].default.t /= "None"

IsMerge == last.op = "AppendFlagValues"

\* The flags of the other registry, and those of them it holds under their
\* long name.
OtherFlags == {last.other[n] : n \in DOMAIN last.other}
CanonicalFlags ==
  {o \in OtherFlags : FlagDef[o].name \in DOMAIN last.other /\ last.other[FlagDef[o].name] = o}

\* The number of times the merge registered the flag o.
TimesRegistered(o) ==
  Cardinality({k \in 1..Len(last.registered) : last.other[last.registered[k]] = o})

\* Every registration of the merge was asked under the flag's long name.
OnlyLongNames ==
  \A k \in 1..Len(last.registered) :
    last.registered[k] = FlagDef[last.other[last.registered[k]]].name

\* The destination gives o under its long name; under its short name.
UnderLongName(o) == FlagDef[o].name \in DOMAIN fl /\ fl[FlagDef[o].name] = o
UnderShortName(o) ==
  FlagDef[o].has_short => (FlagDef[o].short_name \in DOMAIN fl /\ fl[FlagDef[o].short_name] = o)

\* The name n (of the flag o) was taken in the destination by a flag that,
\* like o, does not allow override.
Taken(n, o) ==
  /\ n \in DOMAIN last.pre_fl
  /\ ~FlagDef[o].allow_override /\ ~FlagDef[last.pre_fl[n]].allow_override

\* A flag of the other registry conflicts with the destination.
NameConflict ==
  \E o \in CanonicalFlags :
    Taken(FlagDef[o].name, o) \/ (FlagDef[o].has_short /\ Taken(FlagDef[o].short_name, o))

SkippedAsReimport(o) == Taken(FlagDef[o].name, o) /\ last.reimport[FlagDef[o].name]

\* The destination kept, under the long name of o, a flag whose value was
\* set, o being at its default.
KeptTheSetFlag(o) ==
  /\ FlagDef[o].name \in DOMAIN fl
  /\ ~fobj[fl[FlagDef[o].name]].using_default_value
  /\ fobj[o].using_default_value

C23_WitnessConflict ==
  /\ IsMerge /\ last.err = "DuplicateFlagError" /\ NameConflict

\* ---- C24
\* The last operation was Reset().
IsReset == last.op = "Reset"

\* C24: after Reset() parsed is false, every registered flag has its default
\* as value and is not marked present, and the flag map is as it was.
C24_Reset ==
  IsReset =>
    /\ ~parsed
    /\ fl = last.pre_fl
    /\ \A n \in DOMAIN fl :
         fobj[fl[n]].value = last.pre_fobj[fl[n]].default /\ fobj[fl[n]].present = 0

\* Reset() after a parse that gave a a value and an attribute set of b.
C24_Witness ==
  /\ IsReset /\ last.pre_parsed
  /\ last.pre_fobj["Fa"].present > 0
  /\ last.pre_fobj["Fa"].value /= last.pre_fobj["Fa"].default
  /\ last.pre_fobj["Fb"].value /= last.pre_fobj["Fb"].default
  /\ fobj["Fa"].value = last.pre_fobj["Fa"].default

\* ---- C25
\* The long name and the short name of the Flag object o are both keys of
\* the flag map.
BothNamesAreKeys(o) ==
  FlagDef[o].has_short /\ FlagDef[o].name \in DOMAIN fl /\ FlagDef[o].short_name \in DOMAIN fl

\* Both keys map to the same Flag object, whose value is therefore the one
\* seen and set through either name.
SameFlagUnderBoth(o) ==
  /\ fl[FlagDef[o].name] = fl[FlagDef[o].short_name]
  /\ fobj[fl[FlagDef[o].name]].value = fobj[fl[FlagDef[o].short_name]].value

C25_WitnessOverride ==
  /\ ~last.plain /\ BothNamesAreKeys("Fa") /\ fl[NameA] = "Fa2" /\ fl[NameX] = "Fa"

\* ---- C26
\* The key n is the long name or the short name of the Flag object o.
IsNameOf(n, o) ==
  n = FlagDef[o].name \/ (FlagDef[o].has_short /\ n = FlagDef[o].short_name)

IsUnrecognized == IsCall /\ last.err = "UnrecognizedFlagError"

\* The tokens recorded as unknown flags whose name no undefok token covers.
Offending == {k \in 1..Len(last.args) : last.cls[k] = "unknown" /\ ~Covered(TokenName(last.args[k]))}

\* The first of them in token order.
OffendingToken == CHOOSE k \in Offending : \A j \in Offending : k <= j

NamesFirstOffending ==
  /\ Offending /= {}
  /\ last.errname = TokenName(last.args[OffendingToken])

\* Flag.Parse was called for token k and returned, and its flag was counted
\* present.
ModifiedAt(k) ==
  \E c \in 1..Len(last.calls) :
    /\ last.calls[c].at = k /\ last.calls[c].ok
    /\ fobj[last.calls[c].o].present > last.pre_fobj[last.calls[c].o].present
    /\ ~fobj[last.calls[c].o].using_default_value

\* C27 as the claim states it: when a parse raises UnrecognizedFlagError the
\* error names the first unknown flag in token order that undefok does not
\* cover, and no flag whose token comes after that token has been modified.
C27_Original ==
  IsUnrecognized =>
    /\ NamesFirstOffending
    /\ \A k \in 1..Len(last.args) : k > OffendingToken => ~ModifiedAt(k)

\* C27, amended: the error names the first unknown flag in token order that
\* undefok does not cover, and it is raised after the whole scan: every token
\* after the offending one that the scan read as a registered flag has
\* modified its flag, and no token was left unscanned because of the error.
C27_Amended ==
  IsUnrecognized =>
    /\ NamesFirstOffending
    /\ ScanCompleted
    /\ \A k \in 1..Len(last.args) :
         (k > OffendingToken /\ last.cls[k] = "flag") => ModifiedAt(k)
    /\ \A k \in 1..Len(last.args) :
         last.cls[k] = "rest" =>
           \E j \in 1..(k - 1) : last.cls[j] \in {"terminator", "positional"}

\* [p, --zz=5, --y, --a=5]: the error names zz, and a is 5.
C27_Witness ==
  /\ IsUnrecognized /\ last.argv = <<TokProg, TokZZ5, TokY, TokA5>>
  /\ last.errname = NameZZ
  /\ fobj[fl[NameA]].value = VInt(5)
  /\ last.pre_fobj[fl[NameA]].value /= VInt(5)


\* ---- C28
IsCallForms == last.op = "CallForms"

\* The flag given in both forms is a registered non-boolean flag, or undefok.
NonBooleanOrUndefok ==
  \/ last.name = NameUndefok
  \/ last.name \in DOMAIN fl /\ ~FlagDef[fl[last.name]].boolean

\* The scan of the one-token call reached the token as a flag token.
ScannedAsFlag ==
  /\ last.scanned
  /\ \E k \in 1..Len(last.args) :
       /\ <<last.args[k]>> = OneTokenForm(last.name, last.value.s)
       /\ last.cls[k] \in {"flag", "undefok"}

\* The expanded vectors differ in the form of the flag only.
SameExpansions ==
  /\ last.two_token.scanned
  /\ \E k \in 1..Len(last.args) :
       /\ <<last.args[k]>> = OneTokenForm(last.name, last.value.s)
       /\ last.two_token.args =
            SubSeq(last.args, 1, k - 1) \o TwoTokenForm(last.name, last.value.s)
              \o SubSeq(last.args, k + 1, Len(last.args))

\* Both calls end alike: the same error or return, the same returned list,
\* the same Flag objects and parsed mark.
SameOutcome ==
  /\ last.two_token.err = last.err
  /\ last.two_token.errname = last.errname
  /\ last.two_token.ret = last.ret
  /\ last.two_token.fobj = fobj
  /\ last.two_token.parsed = parsed

PlainValue ==
  /\ last.value.s /= DashDash
  /\ ~IsFlagFileDirective(last.value.s)
  /\ ~(/\ StartsWith(last.value.s, Dash)
       /\ ~Contains(last.value.s, "=")
       /\ LStrip(last.value.s, "-") \in DOMAIN fl
       /\ ~FlagDef[fl[LStrip(last.value.s, "-")]].boolean)

\* undefok is a registered non-boolean flag, or GNU mode is on.
UndefokSeenByExpander ==
  last.name = NameUndefok =>
    \/ gnu
    \/ NameUndefok \in DOMAIN fl /\ ~FlagDef[fl[NameUndefok]].boolean

C28_WitnessUndefok ==
  /\ IsCallForms /\ ~gnu /\ NameUndefok \in DOMAIN fl
  /\ last.argv = <<TokProg, TokUndefokZZ, TokZZ5>>
  /\ last.err = "ok" /\ SameOutcome /\ SameExpansions


\* ---- C29
\* The occurrences of flag o in the expanded vector: the tokens the scan
\* handed to o.
Occurrences(o) == {c \in 1..Len(last.calls) : last.calls[c].o = o}

\* The occurrence of o that comes last in the expanded vector.
LastOccurrence(o) ==
  CHOOSE c \in Occurrences(o) : \A d \in Occurrences(o) : last.calls[d].at <= last.calls[c].at

C29_WitnessOverridden ==
  /\ IsCall /\ last.argv = <<TokProg, TokFlagfileF, TokA5>>
  /\ last.err = "ok"
  /\ Cardinality(Occurrences(fl[NameA])) = 2
  /\ fobj[fl[NameA]].value = VInt(5)

\* [p, --b, --flagfile=f, --nob]: b is given three times and is false.
C29_WitnessThrice ==
  /\ IsCall /\ last.argv = <<TokProg, TokB, TokFlagfileF, TokNoB>>
  /\ NameNoB \notin DOMAIN fl
  /\ last.err = "ok"
  /\ Cardinality(Occurrences(fl[NameB])) = 3
  /\ fobj[fl[NameB]].value = VBool(FALSE)


\* ---- C30
\* The position of the first flagfile directive in argv[1:]; the tokens
\* before it stand at the same positions in the expanded vector.
DirectiveAt ==
  CHOOSE k \in 1..Len(last.argv) - 1 :
    /\ IsFlagFileDirective(last.argv[k + 1])
    /\ \A j \in 1..(k - 1) : ~IsFlagFileDirective(last.argv[j + 1])

HasDirective ==
  /\ IsCall /\ last.scanned
  /\ \E k \in 1..Len(last.argv) - 1 : IsFlagFileDirective(last.argv[k + 1])

\* The expander replaced the directive by the lines of its file.
ExpandedAt(k) == last.args[k] /= last.argv[k + 1]

\* The scan stopped before position k.
StoppedBefore(k) ==
  \E j \in 1..(k - 1) :
    last.cls[j] = "terminator" \/ (last.cls[j] = "positional" /\ ~gnu)

\* The scan said what position k is: it got there, or it stopped before (it
\* did not raise before).
Classified(k) == last.cls[k] /= "rest" \/ StoppedBefore(k)

\* The scan reached position k as a flag token.
ReachedAsFlag(k) == last.cls[k] \notin {"rest", "value", "positional", "terminator"}

\* C30 as the claim states it: the directive is expanded exactly when the
\* scanner reaches its position as a flag token.
C30_Original ==
  (HasDirective /\ Classified(DirectiveAt)) =>
    (ExpandedAt(DirectiveAt) <=> ReachedAsFlag(DirectiveAt))

\* A token starting with a dash was taken as the value of the flag before it,
\* at position k or before.
DashValueUpTo(k) ==
  \E j \in 1..k : last.cls[j] = "value" /\ StartsWith(last.args[j], Dash)

\* A token of dashes only, other than --, stands before position k.
AllDashesBefore(k) ==
  \E j \in 1..(k - 1) : last.cls[j] = "positional" /\ StartsWith(last.args[j], Dash)

\* undefok took its value from the next token before position k, and the
\* flag map has no non-boolean flag named undefok.
UnregisteredUndefokBefore(k) ==
  /\ ~(NameUndefok \in DOMAIN fl /\ ~FlagDef[fl[NameUndefok]].boolean)
  /\ \E j \in 1..(k - 2) : last.cls[j] = "undefok" /\ last.cls[j + 1] = "value"

\* C30 as the code has it: the expander and the scanner agree on the
\* directive unless a token starting with a dash was taken as a flag's value,
\* a token of dashes only came before, or undefok, not registered, took the
\* token after it.
C30_Code ==
  (/\ HasDirective /\ Classified(DirectiveAt)
   /\ ~DashValueUpTo(DirectiveAt)
   /\ ~AllDashesBefore(DirectiveAt)
   /\ ~UnregisteredUndefokBefore(DirectiveAt)) =>
    (ExpandedAt(DirectiveAt) <=> ReachedAsFlag(DirectiveAt))

\* [p, --a, 5, --flagfile=f], GNU mode off: 5 is the value of a, the
\* directive is expanded and its first line is scanned as a flag.
C30_Witness ==
  /\ HasDirective /\ ~gnu
  /\ last.argv = <<TokProg, TokA, Tok5, TokFlagfileF>>
  /\ DirectiveAt = 3 /\ ExpandedAt(3) /\ ReachedAsFlag(3)
  /\ last.args[3] = TokA7 /\ fobj[fl[NameA]].value = VInt(7)

\* [p, 5, --flagfile=f], GNU mode off: neither expanded nor scanned.
C30_WitnessStopped ==
  /\ HasDirective /\ ~gnu
  /\ last.argv = <<TokProg, Tok5, TokFlagfileF>>
  /\ ~ExpandedAt(2) /\ ~ReachedAsFlag(2) /\ last.ret = last.argv

\* [p, -, --flagfile=f], GNU mode off: expanded, and the scan stopped at -.
C30_WitnessDash ==
  /\ HasDirective /\ ~gnu
  /\ last.argv = <<TokProg, Dash, TokFlagfileF>>
  /\ ExpandedAt(2) /\ ~ReachedAsFlag(2) /\ StoppedBefore(2)


\* ---- C31
\* The flag under key n was hidden: a key that maps to it was given to
\* HideFlag.
FlagHidden(n) == \E m \in DOMAIN fl : fl[m] = fl[n] /\ m \in hidden

IsAttrAccess == last.op \in {"GetAttr", "SetAttr"} /\ last.name \in DOMAIN fl

\* The access failed with AttributeError and changed no Flag object.
AttributeNotFound == last.err = "AttributeError" /\ fobj = last.pre_fobj

\* HideFlag leaves the flag map and the Flag objects alone.
HiddenStaysRegistered ==
  last.op = "HideFlag" => (fl = last.pre_fl /\ fobj = last.pre_fobj)

\* A parse hands its values to a hidden flag as to any other: the flag holds
\* the value of the last token the scan gave it.
HiddenStillParsed ==
  IsCall =>
    \A n \in DOMAIN fl :
      (FlagHidden(n) /\ OkCalls(fl[n]) /= {}) =>
        LET c == last.calls[CHOOSE k \in OkCalls(fl[n]) : \A j \in OkCalls(fl[n]) : j <= k]
        IN fobj[fl[n]].value = ParserParse(FlagDef[fl[n]].kind, c.raw).v

\* C31 as the claim states it: once a flag is hidden, reading and writing it
\* as an attribute fail with AttributeError under every key that maps to it,
\* a failed write changes nothing, and the flag stays in the flag map and
\* still receives values from parsing.
C31_Original ==
  /\ (IsAttrAccess /\ FlagHidden(last.name)) => AttributeNotFound
  /\ HiddenStaysRegistered
  /\ HiddenStillParsed

\* C31 as the code has it: the accesses fail under the key given to HideFlag;
\* under another key of the same flag they do not fail with AttributeError.
C31_Code ==
  /\ IsAttrAccess =>
       IF last.name \in hidden THEN AttributeNotFound
       ELSE last.err /= "AttributeError"
  /\ HiddenStaysRegistered
  /\ HiddenStillParsed

\* HideFlag(a), then FLAGS.a = 9 fails and a keeps its value.
C31_Witness ==
  /\ last.op = "SetAttr" /\ last.name = NameA /\ hidden = {NameA}
  /\ last.value = VInt(9)
  /\ AttributeNotFound /\ fobj[fl[NameA]].value = VInt(0)

\* HideFlag(a), then FLAGS(['p', '-x=7']) sets the hidden flag.
C31_WitnessParsed ==
  /\ IsCall /\ last.argv = <<TokProg, TokX7>>
  /\ hidden = {NameA} /\ NameA \in DOMAIN fl
  /\ fobj[fl[NameA]].value = VInt(7)
  /\ last.pre_fobj[fl[NameA]].value = VInt(0)

\* HideFlag(a), then FLAGS.x = 9 stores 9 in the hidden flag.
C31_WitnessOtherKey ==
  /\ last.op = "SetAttr" /\ last.name = NameX /\ hidden = {NameA}
  /\ last.err = "ok" /\ fobj[fl[NameA]].value = VInt(9)


\* ---- C32
\* The call ended in ReadFlagsFromFiles: a file could not be opened, or a
\* directive had no argument; no token was scanned.
FailedInExpansion ==
  /\ IsCall /\ last.argv /= <<>> /\ ~last.scanned
  /\ last.err \in {"CantOpenFlagFileError", "IllegalFlagValue"}

\* C32: a parse that fails during flagfile expansion has changed no Flag
\* object and not the parsed mark, whatever tokens precede the directive.
C32_NothingChanged ==
  FailedInExpansion =>
    /\ fobj = last.pre_fobj
    /\ parsed = last.pre_parsed
    /\ last.calls = <<>>

\* [p, --a=5, -flagfile=g] with g missing: a is not 5.
C32_Witness ==
  /\ FailedInExpansion /\ last.err = "CantOpenFlagFileError"
  /\ last.argv = <<TokProg, TokA5, TokFlagfileG>>
  /\ <<"g">> \notin DOMAIN files
  /\ fobj[fl[NameA]].value = VInt(0) /\ ~parsed

\* [p, --a=5, --b, --flagfile]: the directive has no argument.
C32_WitnessNoArgument ==
  /\ FailedInExpansion /\ last.err = "IllegalFlagValue"
  /\ last.argv = <<TokProg, TokA5, TokB, Flagfile2>>
  /\ fobj = last.pre_fobj

\* [p, --flagfile=f, -flagfile=g] with g naming the missing h: the lines of
\* f were not scanned.
C32_WitnessNested ==
  /\ FailedInExpansion /\ last.err = "CantOpenFlagFileError"
  /\ last.argv = <<TokProg, TokFlagfileF, TokFlagfileG>>
  /\ <<"g">> \in DOMAIN files
  /\ fobj = last.pre_fobj /\ parsed = last.pre_parsed

====
